---- MODULE Spec2Model ----
(***************************************************************************)
(* Model of the clone-session service of browser-tools-server             *)
(* (clone/session-service.ts): the session registry, the chunked snapshot *)
(* assembler with its per-(session, payload type) SnapshotState objects,   *)
(* the progress fan-out over web sockets and shutdown.                     *)
(*                                                                         *)
(* Every HTTP handler is an async function.  It runs atomically between    *)
(* two awaits on real I/O (fs.promises.mkdir, the stream's drain event,    *)
(* WriteStream.end, fs.promises.writeFile) and other handlers run while it *)
(* is suspended.  One action of the model is one such atomic segment; a    *)
(* handler that meets no I/O wait is a single action.  The JavaScript      *)
(* objects a suspended handler keeps a reference to (the per-session Map   *)
(* and the SnapshotState) live in the heaps mapObjs and stateObjs and are  *)
(* named by their index.                                                   *)
(***************************************************************************)
EXTENDS Integers, Sequences, FiniteSets, TLC

\* ---------------------------------------------------------------- bounds
MaxSessions == 2      \* sessions that can be created
MaxRequests == 3      \* requests / external calls issued in one behaviour
MaxClients == 1      \* progress sockets

SessionIds == 1..(MaxSessions + 1)   \* the last id is never created
ClientIds == 1..MaxClients

VARIABLES
  sessions,         \* this.sessions: sessionId -> SessionRecord
  snapshotStates,   \* this.snapshotStates: Map sessionId -> Map object (insertion order)
  mapObjs,          \* heap of the inner Map<string, SnapshotState> objects
  stateObjs,        \* heap of SnapshotState objects
  files,            \* the file system under sessionsRoot: path -> bytes
  progressClients,  \* this.progressClients: socket -> readyState
  delivered,        \* socket -> the messages sent to it, in order
  emitted,          \* the progress events broadcast by emitProgress, in order
  handlers,         \* suspended async handlers: handler -> locals
  lastResp,         \* the HTTP response written last
  budget,           \* requests the environment may still issue
  service,          \* "running", "shuttingDown", "closed" or "crashed"
  call              \* a call of one of the pure functions: its input and result

serviceVars == <<sessions, snapshotStates, mapObjs, stateObjs, files, progressClients,
                 delivered, emitted, handlers, lastResp, budget, service>>

vars == <<serviceVars, call>>

\* ------------------------------------------------------- JavaScript Map
\* A Map is the sequence of its <<key, value>> entries in insertion order.
MapHas(m, k) == \E i \in 1..Len(m) : m[i][1] = k

MapGet(m, k) == m[CHOOSE i \in 1..Len(m) : m[i][1] = k][2]

MapSet(m, k, v) ==
  IF MapHas(m, k)
  THEN [i \in 1..Len(m) |-> IF m[i][1] = k THEN <<k, v>> ELSE m[i]]
  ELSE Append(m, <<k, v>>)

MapDelete(m, k) == SelectSeq(m, LAMBDA e : e[1] # k)

MapKeys(m) == [i \in 1..Len(m) |-> m[i][1]]

RECURSIVE Join(_)
Join(ss) == IF ss = <<>> THEN <<>> ELSE Head(ss) \o Join(Tail(ss))

\* ------------------------------------------------------ text and bytes
\* A string is the sequence of its characters; a file holds bytes.
B64Alphabet ==
  <<"A","B","C","D","E","F","G","H","I","J","K","L","M","N","O","P",
    "Q","R","S","T","U","V","W","X","Y","Z","a","b","c","d","e","f",
    "g","h","i","j","k","l","m","n","o","p","q","r","s","t","u","v",
    "w","x","y","z","0","1","2","3","4","5","6","7","8","9","+","/">>

IsB64Char(c) == \E i \in 1..64 : B64Alphabet[i] = c

B64Value(c) == (CHOOSE i \in 1..64 : B64Alphabet[i] = c) - 1

\* The code unit of an ASCII character (utf8 writes one byte for each).
CharCode(c) ==
  IF c = "=" THEN 61
  ELSE IF c = "+" THEN 43
  ELSE IF c = "/" THEN 47
  ELSE LET v == B64Value(c)
       IN IF v < 26 THEN 65 + v ELSE IF v < 52 THEN 97 + (v - 26) ELSE 48 + (v - 52)

Utf8Bytes(str) == [i \in 1..Len(str) |-> CharCode(str[i])]

\* Buffer.from(str, "base64"): characters outside the alphabet are skipped,
\* the text stops at the first "=", each group of four 6-bit values gives
\* three bytes and a trailing group of n values gives n-1 bytes.
RECURSIVE B64Clean(_)
B64Clean(str) ==
  IF str = <<>> \/ Head(str) = "=" THEN <<>>
  ELSE IF IsB64Char(Head(str)) THEN <<B64Value(Head(str))>> \o B64Clean(Tail(str))
  ELSE B64Clean(Tail(str))

RECURSIVE B64Groups(_)
B64Groups(v) ==
  IF Len(v) >= 4
  THEN <<v[1] * 4 + v[2] \div 16,
         (v[2] % 16) * 16 + v[3] \div 4,
         (v[3] % 4) * 64 + v[4]>> \o B64Groups(SubSeq(v, 5, Len(v)))
  ELSE IF Len(v) = 3
  THEN <<v[1] * 4 + v[2] \div 16, (v[2] % 16) * 16 + v[3] \div 4>>
  ELSE IF Len(v) = 2
  THEN <<v[1] * 4 + v[2] \div 16>>
  ELSE <<>>

Base64Bytes(str) == B64Groups(B64Clean(str))

\* WriteStream.write(payload, encoding) with the encoding of line 375.
EncodedBytes(payload, payloadFormat) ==
  IF payloadFormat = "base64" THEN Base64Bytes(payload) ELSE Utf8Bytes(payload)

\* ------------------------------------------------------------ the types
PayloadTypes == {"dom", "styles", "assets", "interactions", "animations", "responsive"}

NoEvent == [sessionId |-> 0, phase |-> "none", progress |-> <<0, 1>>]

NoSessionInfo == [sessionId |-> 0, scope |-> "", status |-> "", notes |-> "",
                  lastProgress |-> NoEvent]

\* n tells two equal responses in a row apart: it alternates.  session is
\* the session of the response body, when it carries one.
NoResp == [n |-> 0, route |-> "none", code |-> 0, error |-> "none",
           expected |-> 0, received |-> 0, session |-> NoSessionInfo]

\* The chunk bodies offered to the service.  Neither text parses as JSON.
ChunkBodies ==
  { [payload |-> <<"A">>, payloadFormat |-> "json"],
    [payload |-> <<"Q", "g", "=", "=">>, payloadFormat |-> "base64"] }

FinishBodies ==
  { [status |-> "", message |-> "", notes |-> ""],
    [status |-> "failed", message |-> "boom", notes |-> ""],
    [status |-> "processing", message |-> "", notes |-> "ok"] }

StartBodies ==
  { [scope |-> "page", includeInteractions |-> FALSE],
    [scope |-> "", includeInteractions |-> FALSE] }

ChunkSequences == {0, 1}

ChunkTotals == {1, 2}

World ==
  [sessions |-> sessions, snapshotStates |-> snapshotStates, mapObjs |-> mapObjs,
   stateObjs |-> stateObjs, files |-> files, progressClients |-> progressClients,
   delivered |-> delivered, emitted |-> emitted, handlers |-> handlers,
   lastResp |-> lastResp, service |-> service]

Commit(W) ==
  /\ sessions' = W.sessions
  /\ snapshotStates' = W.snapshotStates
  /\ mapObjs' = W.mapObjs
  /\ stateObjs' = W.stateObjs
  /\ files' = W.files
  /\ progressClients' = W.progressClients
  /\ delivered' = W.delivered
  /\ emitted' = W.emitted
  /\ handlers' = W.handlers
  /\ lastResp' = W.lastResp
  /\ service' = W.service
  /\ call' = call

\* res.status(code).json(...): the handler ends.
respond(W, rid, route, code, error, expected, received) ==
  [W EXCEPT !.lastResp = [n |-> 1 - W.lastResp.n, route |-> route, code |-> code,
                          error |-> error, expected |-> expected, received |-> received,
                          session |-> NoSessionInfo],
            !.handlers = [h \in DOMAIN W.handlers \ {rid} |-> W.handlers[h]]]

\* The handler reaches an await on I/O and keeps its locals.
suspend(W, rid, h) ==
  [W EXCEPT !.handlers = [r \in DOMAIN W.handlers \cup {rid} |->
                            IF r = rid THEN h ELSE W.handlers[r]]]

serializeSession(record) ==
  [sessionId |-> record.sessionId, scope |-> record.scope, status |-> record.status,
   notes |-> record.notes, lastProgress |-> record.lastProgress]

\* res.status(code).json({ session: this.serializeSession(record) })
respondSession(W, rid, route, code, sessionId) ==
  [respond(W, rid, route, code, "none", 0, 0) EXCEPT
     !.lastResp.session = serializeSession(W.sessions[sessionId])]

\* A variant of emitProgress that broadcasts without looking the session up.
emitProgress_Unguarded(W, sessionId, event) ==
  LET W1 == IF sessionId \in DOMAIN W.sessions
            THEN [W EXCEPT !.sessions[sessionId].lastProgress = event]
            ELSE W
  IN [W1 EXCEPT !.emitted = Append(@, event),
                !.delivered =
        [c \in DOMAIN W1.delivered |->
           IF c \in DOMAIN W1.progressClients /\ W1.progressClients[c] = "OPEN"
           THEN Append(W1.delivered[c], [type |-> "clone:progress", event |-> event])
           ELSE W1.delivered[c]]]

emitProgress(W, sessionId, event) ==
  IF sessionId \notin DOMAIN W.sessions THEN W
  ELSE LET W1 == [W EXCEPT !.sessions[sessionId].lastProgress = event]
           message == [type |-> "clone:progress", event |-> event,
                       session |-> serializeSession(W1.sessions[sessionId])]
       IN [W1 EXCEPT !.emitted = Append(@, event),
                     !.delivered =
             [c \in DOMAIN W1.delivered |->
                IF c \in DOMAIN W1.progressClients /\ W1.progressClients[c] = "OPEN"
                THEN Append(W1.delivered[c], message)
                ELSE W1.delivered[c]]]

recordProgress(W, event) == emitProgress(W, event.sessionId, event)

\* ----------------------------------------------------- snapshot assembly
resolveProgressPhase(payloadType) ==
  CASE payloadType = "dom" -> "capturingDom"
    [] payloadType = "styles" -> "capturingStyles"
    [] payloadType = "assets" -> "capturingAssets"
    [] payloadType = "interactions" -> "capturingInteractions"
    [] payloadType = "responsive" -> "capturingResponsiveStates"
    [] OTHER -> "undefined"

\* A payloadType that is no CloneSnapshotPayloadType but passes the checks of
\* the chunk route: it names a file in the workspace of session 2.
TraversalType == "../2/dom-snapshot"

\* The segments of `${payloadType}.json` between the separators "/".
FileSegments(payloadType) ==
  IF payloadType = TraversalType
  THEN <<[kind |-> "up"], [kind |-> "dir", id |-> 2],
         [kind |-> "file", name |-> "dom-snapshot.json"]>>
  ELSE <<[kind |-> "file", name |-> payloadType \o ".json"]>>

\* path.join: the segments are applied to the directory `dirs` (the names
\* below sessionsRoot) one by one, ".." leaving the last directory.
RECURSIVE PathJoin(_, _)
PathJoin(dirs, segments) ==
  IF segments = <<>> THEN dirs
  ELSE LET seg == Head(segments)
       IN IF seg.kind = "up"
          THEN PathJoin(IF dirs = <<>> THEN dirs ELSE SubSeq(dirs, 1, Len(dirs) - 1),
                        Tail(segments))
          ELSE IF seg.kind = "dir" THEN PathJoin(Append(dirs, seg.id), Tail(segments))
          ELSE PathJoin(Append(dirs, seg.name), Tail(segments))

\* A path is <<the session whose workspace it lies in, the file name>>.
resolveSnapshotFilePath(workspacePath, payloadType) ==
  CASE payloadType = "dom" -> <<workspacePath, "dom-snapshot.json">>
    [] payloadType = "styles" -> <<workspacePath, "styles.json">>
    [] payloadType = "assets" -> <<workspacePath, "assets.json">>
    [] payloadType = "interactions" -> <<workspacePath, "interactions.json">>
    [] payloadType = "responsive" -> <<workspacePath, "responsive.json">>
    [] OTHER -> PathJoin(<<workspacePath>>, FileSegments(payloadType))

\* JSON.parse throws on a text that does not begin a JSON value.
JsonValueStart == {"{", "[", "\"", "-", "0", "1", "2", "3", "4", "5", "6", "7", "8", "9",
                   "t", "f", "n"}

JsonParseThrows(rawPayload) == rawPayload = <<>> \/ Head(rawPayload) \notin JsonValueStart

\* What persistBufferedSnapshot writes to filePath.  A styles or assets text
\* on which JSON.parse throws falls through to the raw write of line 522.
persistBufferedSnapshot(payloadType, rawPayload) ==
  CASE payloadType \notin {"styles", "assets"} -> Utf8Bytes(rawPayload)
    [] payloadType \in {"styles", "assets"} /\ JsonParseThrows(rawPayload) -> Utf8Bytes(rawPayload)

\* fs.write of `bytes` at offset `pos` of a file holding `old`.
WriteAt(old, pos, bytes) ==
  LET padded == IF Len(old) < pos THEN old \o [i \in 1..(pos - Len(old)) |-> 0] ELSE old
  IN SubSeq(padded, 1, pos) \o bytes \o SubSeq(padded, pos + Len(bytes) + 1, Len(padded))

WriteFile(fs, filePath, bytes) ==
  [p \in DOMAIN fs \cup {filePath} |-> IF p = filePath THEN bytes ELSE fs[p]]

\* finalizeSnapshot up to its await: the stream is ended, or the buffers are
\* joined and handed to persistBufferedSnapshot.
finalizeSnapshot(W, rid, h, sessionId, payloadType, st) ==
  LET state == W.stateObjs[st]
      W1 == IF state.writeStream THEN [W EXCEPT !.stateObjs[st].ending = TRUE] ELSE W
  IN suspend(W1, rid,
       [h EXCEPT !.pc = "finalize", !.sessionId = sessionId, !.payloadType = payloadType,
                 !.state = st,
                 !.combined = IF state.writeStream THEN <<>> ELSE Join(state.buffers)])

\* Lines 471-475: the entry of the payload type leaves the session's current map.
forgetSnapshot(W, sessionId, payloadType) ==
  IF ~MapHas(W.snapshotStates, sessionId) THEN W
  ELSE LET m == MapGet(W.snapshotStates, sessionId)
           left == MapDelete(W.mapObjs[m], payloadType)
       IN [W EXCEPT !.mapObjs[m] = left,
                    !.snapshotStates = IF left = <<>> THEN MapDelete(@, sessionId) ELSE @]

\* A variant of the end of the finish route whose event is always "completed".
finishTail_AlwaysCompleted(W, rid, h) ==
  LET event == [sessionId |-> h.sessionId, phase |-> "completed", progress |-> <<1, 1>>]
  IN respondSession(emitProgress(W, h.sessionId, event), rid, "finish", 200, h.sessionId)

\* Lines 139-155 of the finish route.
finishTail(W, rid, h) ==
  LET phase == IF h.nextStatus = "failed" THEN "failed" ELSE "completed"
      event == [sessionId |-> h.sessionId, phase |-> phase, progress |-> <<1, 1>>]
  IN respondSession(emitProgress(W, h.sessionId, event), rid, "finish", 200, h.sessionId)

\* Lines 276-287 of shutdown: every socket is closed and the set is cleared.
closeClients(W, rid) ==
  [W EXCEPT !.progressClients = [c \in {} |-> "OPEN"],
            !.service = "closed",
            !.handlers = [r \in DOMAIN W.handlers \ {rid} |-> W.handlers[r]]]

\* finalizeAllSnapshots: the entries of the session's map when it is called.
finalizeAllSnapshots(W, sessionId) ==
  IF MapHas(W.snapshotStates, sessionId)
  THEN W.mapObjs[MapGet(W.snapshotStates, sessionId)]
  ELSE <<>>

\* The loop of shutdown over snapshotSessionIds, up to its next await.
RECURSIVE shutdownLoop(_, _, _)
shutdownLoop(W, rid, h) ==
  IF h.sessionIds = <<>> THEN closeClients(W, rid)
  ELSE LET sessionId == Head(h.sessionIds)
           entries == finalizeAllSnapshots(W, sessionId)
       IN IF entries = <<>>
          THEN shutdownLoop(W, rid, [h EXCEPT !.sessionIds = Tail(@)])
          ELSE finalizeSnapshot(W, rid, [h EXCEPT !.entries = entries],
                                sessionId, entries[1][1], entries[1][2])

\* What follows a finalizeSnapshot that returned, in each of its callers.
afterFinalize(W, rid, h) ==
  IF h.kind = "chunk" THEN respond(W, rid, "chunk", 202, "none", 0, 0)
  ELSE LET rest == Tail(h.entries)
       IN IF rest # <<>>
          THEN finalizeSnapshot(W, rid, [h EXCEPT !.entries = rest],
                                h.sessionId, rest[1][1], rest[1][2])
          ELSE IF h.kind = "finish" THEN finishTail(W, rid, h)
          ELSE shutdownLoop(W, rid, [h EXCEPT !.sessionIds = Tail(@)])

\* What follows a finalizeSnapshot that threw: the routes answer 500,
\* shutdown logs and goes on with the next session.
finalizeThrew(W, rid, h) ==
  IF h.kind = "shutdown" THEN shutdownLoop(W, rid, [h EXCEPT !.sessionIds = Tail(@)])
  ELSE respond(W, rid, h.kind, 500, "internal", 0, 0)

\* The I/O awaited by finalizeSnapshot completes (ok) or fails.
finalizeSnapshotDone(W, rid, ok) ==
  LET h == W.handlers[rid]
      state == W.stateObjs[h.state]
  IN IF ~ok THEN finalizeThrew(W, rid, h)
     ELSE LET W1 == IF state.writeStream
                    THEN [W EXCEPT !.stateObjs[h.state].finalized = @ + 1]
                    ELSE [W EXCEPT !.files = WriteFile(@, state.filePath,
                                      persistBufferedSnapshot(h.payloadType, h.combined)),
                                   !.stateObjs[h.state].buffers = <<>>,
                                   !.stateObjs[h.state].finalized = @ + 1]
          IN afterFinalize(forgetSnapshot(W1, h.sessionId, h.payloadType), rid, h)

\* A variant of afterWrite that finalizes only beyond the expected count.
afterWrite_FinalizesLate(W, rid, h, st) ==
  LET W1 == [W EXCEPT !.stateObjs[st].receivedChunks = @ + 1,
                      !.stateObjs[st].accepted = Append(@, h.chunk),
                      !.sessions[h.sessionId].status = "capturing"]
      state == W1.stateObjs[st]
      progress == IF state.expectedChunks > 0
                  THEN IF state.receivedChunks >= state.expectedChunks
                       THEN <<1, 1>>
                       ELSE <<state.receivedChunks, state.expectedChunks>>
                  ELSE <<1, 1>>
      phase == resolveProgressPhase(h.payloadType)
      W2 == IF phase # "undefined"
            THEN recordProgress(W1, [sessionId |-> h.sessionId, phase |-> phase,
                                     progress |-> progress])
            ELSE W1
  IN IF state.receivedChunks > state.expectedChunks
     THEN finalizeSnapshot(W2, rid, h, h.sessionId, h.payloadType, st)
     ELSE respond(W2, rid, "chunk", 202, "none", 0, 0)

\* Lines 387-408 of appendSnapshotChunk.
afterWrite(W, rid, h, st) ==
  LET W1 == [W EXCEPT !.stateObjs[st].receivedChunks = @ + 1,
                      !.stateObjs[st].accepted = Append(@, h.chunk),
                      !.sessions[h.sessionId].status = "capturing"]
      state == W1.stateObjs[st]
      progress == IF state.expectedChunks > 0
                  THEN IF state.receivedChunks >= state.expectedChunks
                       THEN <<1, 1>>
                       ELSE <<state.receivedChunks, state.expectedChunks>>
                  ELSE <<1, 1>>
      phase == resolveProgressPhase(h.payloadType)
      W2 == IF phase # "undefined"
            THEN recordProgress(W1, [sessionId |-> h.sessionId, phase |-> phase,
                                     progress |-> progress])
            ELSE W1
  IN IF state.receivedChunks >= state.expectedChunks
     THEN finalizeSnapshot(W2, rid, h, h.sessionId, h.payloadType, st)
     ELSE respond(W2, rid, "chunk", 202, "none", 0, 0)

\* A variant of checkAndWrite that hands the payload to the sink before it
\* compares the sequence number.
checkAndWrite_WriteBeforeCheck(W, rid, h, st, writeOk) ==
  LET chunk == h.chunk
      bytes == EncodedBytes(chunk.payload, chunk.payloadFormat)
      state == W.stateObjs[st]
      W1 == IF state.writeStream
            THEN [W EXCEPT !.stateObjs[st].expectedChunks = chunk.totalChunks,
                           !.stateObjs[st].written = @ \o bytes,
                           !.files[state.filePath] = WriteAt(@, Len(state.written), bytes)]
            ELSE [W EXCEPT !.stateObjs[st].expectedChunks = chunk.totalChunks,
                           !.stateObjs[st].buffers = Append(@, chunk.payload)]
  IN IF chunk.sequence # state.receivedChunks
     THEN respond(W1, rid, "chunk", 500, "sequence", state.receivedChunks, chunk.sequence)
     ELSE IF state.writeStream /\ ~writeOk
     THEN suspend(W1, rid, [h EXCEPT !.pc = "drain", !.state = st])
     ELSE afterWrite(W1, rid, h, st)

\* A variant of checkAndWrite that marks the session failed when it rejects
\* a chunk.
checkAndWrite_RejectionFailsSession(W, rid, h, st, writeOk) ==
  LET chunk == h.chunk
      W1 == [W EXCEPT !.stateObjs[st].expectedChunks = chunk.totalChunks]
      state == W1.stateObjs[st]
  IN IF chunk.sequence # state.receivedChunks
     THEN respond([W1 EXCEPT !.sessions[h.sessionId].status = "failed"],
                  rid, "chunk", 500, "sequence", state.receivedChunks, chunk.sequence)
     ELSE IF state.writeStream
     THEN IF state.ending
          THEN [W1 EXCEPT !.service = "crashed", !.handlers = [r \in {} |-> h]]
          ELSE LET bytes == EncodedBytes(chunk.payload, chunk.payloadFormat)
                   W2 == [W1 EXCEPT
                            !.stateObjs[st].written = @ \o bytes,
                            !.files[state.filePath] = WriteAt(@, Len(state.written), bytes)]
               IN IF writeOk THEN afterWrite(W2, rid, h, st)
                  ELSE suspend(W2, rid, [h EXCEPT !.pc = "drain", !.state = st])
     ELSE afterWrite([W1 EXCEPT !.stateObjs[st].buffers = Append(@, chunk.payload)],
                     rid, h, st)

\* Lines 364-385 of appendSnapshotChunk.  writeOk is the result of
\* WriteStream.write; a write to a stream that was ended raises an error
\* event nobody listens to, which ends the process.
checkAndWrite(W, rid, h, st, writeOk) ==
  LET chunk == h.chunk
      W1 == [W EXCEPT !.stateObjs[st].expectedChunks = chunk.totalChunks]
      state == W1.stateObjs[st]
  IN IF chunk.sequence # state.receivedChunks
     THEN respond(W1, rid, "chunk", 500, "sequence", state.receivedChunks, chunk.sequence)
     ELSE IF state.writeStream
     THEN IF state.ending
          THEN [W1 EXCEPT !.service = "crashed", !.handlers = [r \in {} |-> h]]
          ELSE LET bytes == EncodedBytes(chunk.payload, chunk.payloadFormat)
                   W2 == [W1 EXCEPT
                            !.stateObjs[st].written = @ \o bytes,
                            !.files[state.filePath] = WriteAt(@, Len(state.written), bytes)]
               IN IF writeOk THEN afterWrite(W2, rid, h, st)
                  ELSE suspend(W2, rid, [h EXCEPT !.pc = "drain", !.state = st])
     ELSE afterWrite([W1 EXCEPT !.stateObjs[st].buffers = Append(@, chunk.payload)],
                     rid, h, st)

\* Lines 345-362 of appendSnapshotChunk: mkdir returned, the state is created.
\* sessionId, accepted and finalized are no fields of the code's
\* SnapshotState: they keep the session whose chunk created the state, the
\* chunks it accepted and the number of times it was flushed.
afterMkdir(W, rid, ok, writeOk) ==
  LET h == W.handlers[rid]
      filePath == resolveSnapshotFilePath(h.sessionId, h.payloadType)
      st == Len(W.stateObjs) + 1
      state == [sessionId |-> h.sessionId,
                payloadType |-> h.payloadType, writeStream |-> h.payloadType = "dom",
                ending |-> FALSE, expectedChunks |-> h.chunk.totalChunks,
                receivedChunks |-> 0, filePath |-> filePath, buffers |-> <<>>,
                written |-> <<>>, accepted |-> <<>>, finalized |-> 0]
  IN IF ~ok THEN respond(W, rid, "chunk", 500, "internal", 0, 0)
     ELSE checkAndWrite(
            [W EXCEPT !.stateObjs = Append(@, state),
                      !.mapObjs[h.sessionStates] = MapSet(@, h.payloadType, st),
                      !.files = IF h.payloadType = "dom" THEN WriteFile(@, filePath, <<>>) ELSE @],
            rid, h, st, writeOk)

\* The locals of a handler.  prior is no local of the code: it keeps the
\* status and notes the session had when the finish request arrived.
NoHandler ==
  [kind |-> "none", pc |-> "none", sessionId |-> 0, chunk |-> <<>>, payloadType |-> "",
   sessionStates |-> 0, state |-> 0, entries |-> <<>>, sessionIds |-> <<>>,
   combined |-> <<>>, nextStatus |-> "", prior |-> <<>>]

\* Lines 326-345 of appendSnapshotChunk, up to the await on mkdir.
appendSnapshotChunk(W, rid, sessionId, chunk, writeOk) ==
  LET payloadType == IF chunk.payloadType = "" THEN "dom" ELSE chunk.payloadType
      known == MapHas(W.snapshotStates, sessionId)
      m == IF known THEN MapGet(W.snapshotStates, sessionId) ELSE Len(W.mapObjs) + 1
      W1 == IF known THEN W
            ELSE [W EXCEPT !.mapObjs = Append(@, <<>>),
                           !.snapshotStates = MapSet(@, sessionId, m)]
      h == [NoHandler EXCEPT !.kind = "chunk", !.sessionId = sessionId, !.chunk = chunk,
                             !.payloadType = payloadType, !.sessionStates = m]
  IN IF MapHas(W1.mapObjs[m], payloadType)
     THEN checkAndWrite(W1, rid, h, MapGet(W1.mapObjs[m], payloadType), writeOk)
     ELSE suspend(W1, rid, [h EXCEPT !.pc = "mkdir"])

\* POST /clone/session/:sessionId/chunk
chunkRoute(W, rid, sessionId, chunk, writeOk) ==
  IF sessionId \notin DOMAIN W.sessions
  THEN respond(W, rid, "chunk", 404, "Session not found", 0, 0)
  ELSE IF ~chunk.wellFormed
  THEN respond(W, rid, "chunk", 400, "Invalid snapshot chunk payload", 0, 0)
  ELSE appendSnapshotChunk(W, rid, sessionId, chunk, writeOk)

\* POST /clone/session/finish; sessionId 0 stands for a body without one.
finishRoute(W, rid, sessionId, body) ==
  IF sessionId = 0 THEN respond(W, rid, "finish", 400, "Missing sessionId", 0, 0)
  ELSE IF sessionId \notin DOMAIN W.sessions
  THEN respond(W, rid, "finish", 404, "Session not found", 0, 0)
  ELSE LET nextStatus == IF body.status = "" THEN "completed" ELSE body.status
           notes == IF body.notes # "" THEN body.notes
                    ELSE IF body.message # "" THEN body.message
                    ELSE W.sessions[sessionId].notes
           W1 == [W EXCEPT !.sessions[sessionId].status = nextStatus,
                           !.sessions[sessionId].notes = notes]
           h == [NoHandler EXCEPT !.kind = "finish", !.sessionId = sessionId,
                                  !.nextStatus = nextStatus,
                                  !.prior = <<W.sessions[sessionId].status,
                                              W.sessions[sessionId].notes>>]
           entries == finalizeAllSnapshots(W1, sessionId)
       IN IF entries = <<>> THEN finishTail(W1, rid, h)
          ELSE finalizeSnapshot(W1, rid, [h EXCEPT !.entries = entries],
                                sessionId, entries[1][1], entries[1][2])

\* shutdown(), lines 266-288.
shutdown(W, rid) ==
  shutdownLoop([W EXCEPT !.service = "shuttingDown"], rid,
               [NoHandler EXCEPT !.kind = "shutdown",
                                 !.sessionIds = MapKeys(W.snapshotStates)])

\* createSession and POST /clone/session/start; mkdirOk is the outcome of mkdir.
createSession(W, sessionId, request) ==
  [W EXCEPT !.sessions =
     [s \in DOMAIN W.sessions \cup {sessionId} |->
        IF s = sessionId
        THEN [sessionId |-> sessionId, scope |-> request.scope, status |-> "initializing",
              notes |-> IF request.includeInteractions THEN "Interactions requested" ELSE "",
              lastProgress |-> NoEvent]
        ELSE W.sessions[s]]]

\* A variant of the start route that answers without the initial event.
startRoute_NoInitialEvent(W, rid, sessionId, request, mkdirOk) ==
  IF request.scope = ""
  THEN respond(W, rid, "start", 400, "Invalid session request", 0, 0)
  ELSE IF ~mkdirOk THEN respond(W, rid, "start", 500, "internal", 0, 0)
  ELSE LET W1 == createSession(W, sessionId, request)
       IN respondSession(W1, rid, "start", 201, sessionId)

startRoute(W, rid, sessionId, request, mkdirOk) ==
  IF request.scope = ""
  THEN respond(W, rid, "start", 400, "Invalid session request", 0, 0)
  ELSE IF ~mkdirOk THEN respond(W, rid, "start", 500, "internal", 0, 0)
  ELSE LET W1 == createSession(W, sessionId, request)
           serialized == serializeSession(W1.sessions[sessionId])
           W2 == emitProgress(W1, sessionId,
                              [sessionId |-> sessionId, phase |-> "initializing",
                               progress |-> <<0, 1>>])
       IN [respond(W2, rid, "start", 201, "none", 0, 0) EXCEPT
             !.lastResp.session = serialized]

\* GET /clone/session/:sessionId
getRoute(W, rid, sessionId) ==
  IF sessionId \notin DOMAIN W.sessions
  THEN respond(W, rid, "get", 404, "Session not found", 0, 0)
  ELSE respondSession(W, rid, "get", 200, sessionId)

\* A variant of the connection handler whose snapshot holds no session.
connection_EmptySnapshot(W, socket) ==
  [W EXCEPT !.progressClients =
              [c \in DOMAIN W.progressClients \cup {socket} |->
                 IF c = socket THEN "OPEN" ELSE W.progressClients[c]],
            !.delivered =
              [c \in DOMAIN W.delivered \cup {socket} |->
                 IF c = socket
                 THEN <<[type |-> "clone:snapshot",
                         sessions |-> [s \in {} |-> NoSessionInfo]]>>
                 ELSE W.delivered[c]]]

\* The connection handler of the progress server, lines 220-241.
connection(W, socket) ==
  [W EXCEPT !.progressClients =
              [c \in DOMAIN W.progressClients \cup {socket} |->
                 IF c = socket THEN "OPEN" ELSE W.progressClients[c]],
            !.delivered =
              [c \in DOMAIN W.delivered \cup {socket} |->
                 IF c = socket
                 THEN <<[type |-> "clone:snapshot",
                         sessions |-> [s \in DOMAIN W.sessions |->
                                         serializeSession(W.sessions[s])]]>>
                 ELSE W.delivered[c]]]

\* ---------------------------------------------------------------- actions
\* The record fields updatedAt, startedAt and the events' timestamp and
\* message are not modelled: no operation reads them.
NoCall == [fn |-> "none", input |-> <<>>, output |-> <<>>, done |-> FALSE]

ServiceInit(requests) ==
  /\ sessions = [s \in {} |-> NoEvent]
  /\ snapshotStates = <<>>
  /\ mapObjs = <<>>
  /\ stateObjs = <<>>
  /\ files = [p \in {} |-> <<>>]
  /\ progressClients = [c \in {} |-> "OPEN"]
  /\ delivered = [c \in {} |-> <<>>]
  /\ emitted = <<>>
  /\ handlers = [r \in {} |-> NoHandler]
  /\ lastResp = NoResp
  /\ budget = requests
  /\ service = "running"

InitWith(requests) == ServiceInit(requests) /\ call = NoCall

Init == InitWith(MaxRequests)

Accepting == service \in {"running", "shuttingDown"} /\ budget > 0

Alive == service # "crashed"

\* The handler a new request runs as: the first free name.
NewHandler == CHOOSE r \in 1..(Cardinality(DOMAIN handlers) + 1) : r \notin DOMAIN handlers

\* randomUUID gives an id no session has; ids are named in creation order.
StartSession(request, mkdirOk) ==
  /\ Accepting
  /\ Cardinality(DOMAIN sessions) < MaxSessions
  /\ budget' = budget - 1
  /\ Commit(startRoute(World, NewHandler, Cardinality(DOMAIN sessions) + 1, request, mkdirOk))

ChunkRequest(sessionId, chunk, writeOk) ==
  /\ Accepting
  /\ budget' = budget - 1
  /\ Commit(chunkRoute(World, NewHandler, sessionId, chunk, writeOk))

MkdirDone(rid, ok, writeOk) ==
  /\ Alive
  /\ rid \in DOMAIN handlers
  /\ handlers[rid].pc = "mkdir"
  /\ UNCHANGED budget
  /\ Commit(afterMkdir(World, rid, ok, writeOk))

\* The drain event.  A stream that was ended in the meantime never emits it.
DrainDone(rid) ==
  /\ Alive
  /\ rid \in DOMAIN handlers
  /\ handlers[rid].pc = "drain"
  /\ ~stateObjs[handlers[rid].state].ending
  /\ UNCHANGED budget
  /\ Commit(afterWrite(World, rid, handlers[rid], handlers[rid].state))

FinalizeDone(rid, ok) ==
  /\ Alive
  /\ rid \in DOMAIN handlers
  /\ handlers[rid].pc = "finalize"
  /\ UNCHANGED budget
  /\ Commit(finalizeSnapshotDone(World, rid, ok))

FinishRequest(sessionId, body) ==
  /\ Accepting
  /\ budget' = budget - 1
  /\ Commit(finishRoute(World, NewHandler, sessionId, body))

GetRequest(sessionId) ==
  /\ Accepting
  /\ budget' = budget - 1
  /\ Commit(getRoute(World, NewHandler, sessionId))

RecordProgress(sessionId, phase) ==
  /\ Accepting
  /\ budget' = budget - 1
  /\ Commit(recordProgress(World, [sessionId |-> sessionId, phase |-> phase,
                                   progress |-> <<1, 2>>]))

Shutdown ==
  /\ service = "running"
  /\ budget > 0
  /\ budget' = budget - 1
  /\ Commit(shutdown(World, NewHandler))

Connect(socket) ==
  /\ service = "running"
  /\ socket \notin DOMAIN delivered
  /\ UNCHANGED budget
  /\ Commit(connection(World, socket))

\* The socket leaves the OPEN state (the peer closes, the network fails).
SocketClosing(socket) ==
  /\ Alive
  /\ socket \in DOMAIN progressClients
  /\ progressClients[socket] = "OPEN"
  /\ progressClients' = [progressClients EXCEPT ![socket] = "CLOSING"]
  /\ UNCHANGED <<sessions, snapshotStates, mapObjs, stateObjs, files, delivered,
                 emitted, handlers, lastResp, budget, service, call>>

\* The close event of the socket, lines 234-236.
SocketClose(socket) ==
  /\ Alive
  /\ socket \in DOMAIN progressClients
  /\ progressClients[socket] = "CLOSING"
  /\ progressClients' = [c \in DOMAIN progressClients \ {socket} |-> progressClients[c]]
  /\ UNCHANGED <<sessions, snapshotStates, mapObjs, stateObjs, files, delivered,
                 emitted, handlers, lastResp, budget, service, call>>

\* The payload types the clients of Spec send: the streamed one and a
\* buffered one.
ChunkTypes == {"dom", "interactions"}

Chunks(types) ==
  { [sequence |-> q, totalChunks |-> n, payloadType |-> t, payloadFormat |-> b.payloadFormat,
     payload |-> b.payload, wellFormed |-> TRUE] :
      q \in ChunkSequences, n \in ChunkTotals, t \in types, b \in ChunkBodies }
  \cup { [sequence |-> 0, totalChunks |-> 1, payloadType |-> "dom", payloadFormat |-> "json",
          payload |-> <<>>, wellFormed |-> FALSE] }

\* The service with clients that start sessions from `starts` and send
\* chunks of the payload types `types`.
NextWith(starts, types) ==
  \/ \E request \in starts, ok \in BOOLEAN : StartSession(request, ok)
  \/ \E s \in SessionIds, chunk \in Chunks(types), writeOk \in BOOLEAN :
       ChunkRequest(s, chunk, writeOk)
  \/ \E rid \in DOMAIN handlers, ok \in BOOLEAN, writeOk \in BOOLEAN :
       MkdirDone(rid, ok, writeOk)
  \/ \E rid \in DOMAIN handlers : DrainDone(rid)
  \/ \E rid \in DOMAIN handlers, ok \in BOOLEAN : FinalizeDone(rid, ok)
  \/ \E s \in SessionIds \cup {0}, body \in FinishBodies : FinishRequest(s, body)
  \/ \E s \in SessionIds : GetRequest(s)
  \/ \E s \in SessionIds : RecordProgress(s, "processing")
  \/ Shutdown

Next == NextWith(StartBodies, ChunkTypes)

Spec == Init /\ [][Next]_vars

\* The service with progress sockets.
NextObs ==
  \/ Next
  \/ \E c \in ClientIds : Connect(c)
  \/ \E c \in ClientIds : SocketClosing(c)
  \/ \E c \in ClientIds : SocketClose(c)

SpecObs == Init /\ [][NextObs]_vars

\* The same service with one more request.
InitDeep == InitWith(MaxRequests + 1)

SpecDeep == InitDeep /\ [][Next]_vars

\* ------------------------------------------------------------- properties
Terminal == {"completed", "failed"}

StateIds == 1..Len(stateObjs)

\* The session and payload type an assembly belongs to are those of its file.
SamePair(a, b) == stateObjs[a].filePath = stateObjs[b].filePath

\* The accepted chunks are the chunks 0..N-1 of an upload of N chunks.
InOrderUpload(accepted) ==
  \A i \in 1..Len(accepted) :
    accepted[i].sequence = i - 1 /\ accepted[i].totalChunks = Len(accepted)

\* The payloads of the accepted chunks, each decoded by its payloadFormat.
Decoded(accepted) ==
  Join([i \in 1..Len(accepted) |->
          EncodedBytes(accepted[i].payload, accepted[i].payloadFormat)])

\* The step in which chunk handler rid, having finalized the assembly,
\* acknowledges the last chunk.
LastChunkAcknowledged(rid) ==
  /\ handlers[rid].kind = "chunk"
  /\ handlers[rid].pc = "finalize"
  /\ rid \notin DOMAIN handlers'
  /\ lastResp' # lastResp
  /\ lastResp'.route = "chunk"
  /\ lastResp'.code = 202

\* C1: when the chunks 0..N-1 of a dom, interactions, animations or
\* responsive upload were accepted in order and the last one is
\* acknowledged, the file of the payload type holds the concatenation of
\* the payloads, each decoded by its payloadFormat.
C1_FileIsConcatenation ==
  [][\A rid \in DOMAIN handlers :
       LastChunkAcknowledged(rid) =>
         LET state == stateObjs'[handlers[rid].state]
         IN (/\ state.payloadType \in {"dom", "interactions", "animations", "responsive"}
             /\ InOrderUpload(state.accepted))
            => /\ state.filePath \in DOMAIN files'
               /\ files'[state.filePath] = Decoded(state.accepted)]_vars

\* C3: at any time at most one assembly that is not finalized exists for a
\* (session, payload type) pair, and the sequence numbers an assembly
\* accepted are 0, 1, 2, ... in order, each once.
C3_OneAssemblyInOrder ==
  /\ \A a, b \in StateIds :
       (a # b /\ SamePair(a, b))
         => (stateObjs[a].finalized > 0 \/ stateObjs[b].finalized > 0)
  /\ \A st \in StateIds :
       \A i \in 1..Len(stateObjs[st].accepted) : stateObjs[st].accepted[i].sequence = i - 1

\* C4: an assembly is flushed and closed at most once.
C4_FinalizedOnce == \A st \in StateIds : stateObjs[st].finalized <= 1

\* The assembly in flight for the payload type of the session, 0 if none.
InFlightState(s, payloadType) ==
  IF MapHas(snapshotStates, s) /\ MapHas(mapObjs[MapGet(snapshotStates, s)], payloadType)
  THEN MapGet(mapObjs[MapGet(snapshotStates, s)], payloadType)
  ELSE 0

\* C2: a chunk for an assembly in flight whose sequence is not the number
\* of chunks received so far is answered with the sequence error naming
\* the expected and the received number, and the assembly's receivedChunks
\* and the content of its sink (buffers, stream, file) are as before.
C2_RejectionKeepsAssembly ==
  \A s \in DOMAIN sessions, chunk \in Chunks(ChunkTypes), writeOk \in BOOLEAN :
    LET st == InFlightState(s, chunk.payloadType)
    IN (chunk.wellFormed /\ st # 0 /\ chunk.sequence # stateObjs[st].receivedChunks)
       => LET R == chunkRoute(World, NewHandler, s, chunk, writeOk)
          IN /\ R.lastResp # lastResp
             /\ R.lastResp.route = "chunk"
             /\ R.lastResp.code = 500
             /\ R.lastResp.error = "sequence"
             /\ R.lastResp.expected = stateObjs[st].receivedChunks
             /\ R.lastResp.received = chunk.sequence
             /\ R.stateObjs[st].receivedChunks = stateObjs[st].receivedChunks
             /\ R.stateObjs[st].buffers = stateObjs[st].buffers
             /\ R.stateObjs[st].written = stateObjs[st].written
             /\ R.stateObjs[st].accepted = stateObjs[st].accepted
             /\ R.files = files

\* A chunk was rejected by an assembly that had accepted a chunk before and
\* is still in flight.
C2_Witness ==
  /\ lastResp.error = "sequence"
  /\ lastResp.expected >= 1
  /\ \E s \in DOMAIN sessions, t \in ChunkTypes :
       LET st == InFlightState(s, t)
       IN /\ st # 0
          /\ stateObjs[st].receivedChunks = lastResp.expected
          /\ stateObjs[st].buffers \o stateObjs[st].written # <<>>

\* In R, reached from the present state by rejecting a chunk of payload
\* type t of session s, nothing but the assembly of (s, t) differs.
OthersUntouched(R, s, t) ==
  LET filePath == resolveSnapshotFilePath(s, t)
  IN /\ R.sessions = sessions
     /\ R.emitted = emitted
     /\ R.delivered = delivered
     /\ \A st \in StateIds :
          stateObjs[st].filePath # filePath => R.stateObjs[st] = stateObjs[st]
     /\ \A p \in DOMAIN files : p # filePath => p \in DOMAIN R.files /\ R.files[p] = files[p]
     /\ \A s2 \in DOMAIN sessions, t2 \in PayloadTypes :
          (<<s2, t2>> # <<s, t>> /\ InFlightState(s2, t2) # 0)
            => /\ MapHas(R.snapshotStates, s2)
               /\ MapHas(R.mapObjs[MapGet(R.snapshotStates, s2)], t2)
               /\ MapGet(R.mapObjs[MapGet(R.snapshotStates, s2)], t2) = InFlightState(s2, t2)

InFlight(states, maps, s) == MapHas(states, s) /\ maps[MapGet(states, s)] # <<>>

\* C6: when a finish request answers with success, no assembly of its
\* session is in the in-flight map any more.
C6_FinishLeavesNothingInFlight ==
  [][(lastResp' # lastResp /\ lastResp'.route = "finish" /\ lastResp'.code = 200)
       => ~InFlight(snapshotStates', mapObjs', lastResp'.session.sessionId)]_vars

RequestedStatus(body) == IF body.status = "" THEN "completed" ELSE body.status

FinalEvent(s, status) ==
  [sessionId |-> s, phase |-> IF status = "failed" THEN "failed" ELSE "completed",
   progress |-> <<1, 1>>]

\* C7: a finish request on a known session sets the status to the
\* requested one (completed when none is given); with nothing in flight,
\* whatever was received before, it answers with success at once, and with
\* assemblies in flight it answers with success when the last of them is
\* flushed; the answer comes with exactly one progress event, of progress 1
\* and of phase failed for the status failed and completed otherwise.
C7_FinishSucceeds ==
  /\ \A s \in DOMAIN sessions, body \in FinishBodies :
       LET R == finishRoute(World, NewHandler, s, body)
       IN /\ R.sessions[s].status = RequestedStatus(body)
          /\ IF finalizeAllSnapshots(World, s) = <<>>
             THEN /\ R.lastResp # lastResp
                  /\ R.lastResp.route = "finish"
                  /\ R.lastResp.code = 200
                  /\ R.emitted = Append(emitted, FinalEvent(s, RequestedStatus(body)))
             ELSE /\ R.lastResp = lastResp
                  /\ R.emitted = emitted
  /\ \A rid \in DOMAIN handlers :
       (handlers[rid].kind = "finish" /\ handlers[rid].pc = "finalize")
       => LET R == finalizeSnapshotDone(World, rid, TRUE)
          IN IF Len(handlers[rid].entries) = 1
             THEN /\ R.lastResp # lastResp
                  /\ R.lastResp.route = "finish"
                  /\ R.lastResp.code = 200
                  /\ R.emitted = Append(emitted, FinalEvent(handlers[rid].sessionId,
                                                            handlers[rid].nextStatus))
             ELSE /\ R.lastResp = lastResp
                  /\ R.emitted = emitted

\* A finish request has answered with success for a session that had
\* received a chunk, with the final event the last one broadcast.
C7_Witness ==
  /\ lastResp.route = "finish"
  /\ lastResp.code = 200
  /\ \E st \in StateIds :
       /\ stateObjs[st].filePath[1] = lastResp.session.sessionId
       /\ stateObjs[st].receivedChunks >= 1
  /\ emitted # <<>>
  /\ emitted[Len(emitted)].progress = <<1, 1>>
  /\ emitted[Len(emitted)].phase \in {"completed", "failed"}

\* C8: once a finish request has answered with success and the session has
\* a terminal status, no step gives the session a status that is not
\* terminal.
C8_TerminalStatusStays ==
  [][\A s \in DOMAIN sessions :
       (/\ lastResp.route = "finish"
        /\ lastResp.code = 200
        /\ lastResp.session.sessionId = s
        /\ sessions[s].status \in Terminal)
       => sessions'[s].status \in Terminal]_vars

\* C9: when a finish request answers with a failure, the status and the
\* notes of its session are those the session had when the request arrived.
C9_FailedFinishKeepsSession ==
  [][\A rid \in DOMAIN handlers :
       (/\ handlers[rid].kind = "finish"
        /\ rid \notin DOMAIN handlers'
        /\ lastResp' # lastResp
        /\ lastResp'.route = "finish"
        /\ lastResp'.code = 500)
       => /\ sessions'[handlers[rid].sessionId].status = handlers[rid].prior[1]
          /\ sessions'[handlers[rid].sessionId].notes = handlers[rid].prior[2]]_vars

\* In R the registry, the in-flight assemblies and the messages to the
\* observers are those of the present state.
NothingChanged(R) ==
  /\ R.sessions = sessions
  /\ R.snapshotStates = snapshotStates
  /\ R.mapObjs = mapObjs
  /\ R.stateObjs = stateObjs
  /\ R.files = files
  /\ R.emitted = emitted
  /\ R.delivered = delivered

\* C10: a finish request, a chunk upload, a session query and a recorded
\* progress event that name a session id the registry does not hold are
\* answered with 404, or dropped, and leave the registry, the in-flight
\* map and the messages to the observers as they were.
C10_UnknownSessionChangesNothing ==
  \A s \in SessionIds \ DOMAIN sessions :
    /\ \A body \in FinishBodies :
         LET R == finishRoute(World, NewHandler, s, body)
         IN R.lastResp # lastResp /\ R.lastResp.code = 404 /\ NothingChanged(R)
    /\ \A chunk \in Chunks(ChunkTypes), writeOk \in BOOLEAN :
         LET R == chunkRoute(World, NewHandler, s, chunk, writeOk)
         IN R.lastResp # lastResp /\ R.lastResp.code = 404 /\ NothingChanged(R)
    /\ LET R == getRoute(World, NewHandler, s)
       IN R.lastResp # lastResp /\ R.lastResp.code = 404 /\ NothingChanged(R)
    /\ \A phase \in {"processing", "completed"} :
         recordProgress(World, [sessionId |-> s, phase |-> phase, progress |-> <<1, 2>>])
           = World

\* A request naming an unknown session was answered with 404 while a
\* session with an assembly in flight and a broadcast event exists.
C10_Witness ==
  /\ lastResp.code = 404
  /\ \E s \in DOMAIN sessions : InFlight(snapshotStates, mapObjs, s)
  /\ emitted # <<>>

\* ------------------------------------------------- start of a session
\* CloneScope of clone-types.ts.
CloneScopes == {"page", "selection"}

\* Start bodies with a scope that is no CloneScope.
AllStartBodies ==
  StartBodies \cup { [scope |-> "selection", includeInteractions |-> TRUE],
                     [scope |-> "viewport", includeInteractions |-> FALSE] }

NextStart == NextWith(AllStartBodies, ChunkTypes)

SpecStart == Init /\ [][NextStart]_vars

\* C11: a start request whose scope is missing or is no CloneScope is
\* answered with 400 and creates nothing: every session of the registry,
\* and every session a start request was answered 201 with, has the scope
\* page or selection, and every progress event is about such a session.
C11_InvalidScopeRejected ==
  /\ \A s \in DOMAIN sessions : sessions[s].scope \in CloneScopes
  /\ (lastResp.route = "start" /\ lastResp.code = 201)
       => lastResp.session.scope \in CloneScopes
  /\ \A i \in 1..Len(emitted) :
       /\ emitted[i].sessionId \in DOMAIN sessions
       /\ sessions[emitted[i].sessionId].scope \in CloneScopes

InitialEvent(s) == [sessionId |-> s, phase |-> "initializing", progress |-> <<0, 1>>]

\* The progress events about session s among the messages msgs, in order.
EventsAbout(msgs, s) ==
  LET progress == SelectSeq(msgs, LAMBDA m : m.type = "clone:progress")
      about == SelectSeq(progress, LAMBDA m : m.event.sessionId = s)
  IN [i \in 1..Len(about) |-> about[i].event]

\* C12: a valid start request adds one session under an id the registry
\* did not hold, with the status initializing, answers 201 with that
\* session, and broadcasts exactly one event, of phase initializing and
\* progress 0, which every open socket receives once; it is the first event
\* about the session in the broadcast order and the first one received by
\* every socket that was attached before the session existed.
C12_StartCreatesSession ==
  /\ \A request \in StartBodies :
       request.scope # ""
       => LET s == Cardinality(DOMAIN sessions) + 1
              R == startRoute(World, NewHandler, s, request, TRUE)
          IN /\ s \notin DOMAIN sessions
             /\ DOMAIN R.sessions = DOMAIN sessions \cup {s}
             /\ \A s2 \in DOMAIN sessions : R.sessions[s2] = sessions[s2]
             /\ R.sessions[s].status = "initializing"
             /\ R.lastResp # lastResp
             /\ R.lastResp.code = 201
             /\ R.lastResp.session.sessionId = s
             /\ R.lastResp.session.status = "initializing"
             /\ R.emitted = Append(emitted, InitialEvent(s))
             /\ \A c \in DOMAIN delivered :
                  IF c \in DOMAIN progressClients /\ progressClients[c] = "OPEN"
                  THEN /\ Len(R.delivered[c]) = Len(delivered[c]) + 1
                       /\ R.delivered[c][Len(R.delivered[c])].type = "clone:progress"
                       /\ R.delivered[c][Len(R.delivered[c])].event = InitialEvent(s)
                       /\ SubSeq(R.delivered[c], 1, Len(delivered[c])) = delivered[c]
                  ELSE R.delivered[c] = delivered[c]
  /\ \A s \in DOMAIN sessions :
       LET about == SelectSeq(emitted, LAMBDA e : e.sessionId = s)
       IN about # <<>> /\ about[1] = InitialEvent(s)
  /\ \A c \in DOMAIN delivered, s \in DOMAIN sessions :
       (s \notin DOMAIN delivered[c][1].sessions /\ EventsAbout(delivered[c], s) # <<>>)
       => EventsAbout(delivered[c], s)[1] = InitialEvent(s)

\* A socket attached before session 1 existed has received the initial
\* event of the session and a later event about it.
C12_Witness ==
  \E c \in DOMAIN delivered, s \in DOMAIN sessions :
    /\ s \notin DOMAIN delivered[c][1].sessions
    /\ Len(EventsAbout(delivered[c], s)) >= 2
    /\ EventsAbout(delivered[c], s)[1] = InitialEvent(s)
    /\ lastResp.route # "start"

\* ------------------------------------------------- the six payload types
NextTypes == NextWith(StartBodies, PayloadTypes)

SpecTypes == Init /\ [][NextTypes]_vars

\* The capturing phase of CloneProgressPhase for each payload type.
CapturingPhase(payloadType) ==
  CASE payloadType = "dom" -> "capturingDom"
    [] payloadType = "styles" -> "capturingStyles"
    [] payloadType = "assets" -> "capturingAssets"
    [] payloadType = "interactions" -> "capturingInteractions"
    [] payloadType = "animations" -> "capturingAnimations"
    [] payloadType = "responsive" -> "capturingResponsiveStates"

\* receivedChunks / expectedChunks clamped to 1.
ClampedProgress(state) ==
  IF state.expectedChunks > 0 /\ state.receivedChunks < state.expectedChunks
  THEN <<state.receivedChunks, state.expectedChunks>>
  ELSE <<1, 1>>

\* The step in which the assembly st accepts a chunk.
ChunkAccepted(st) ==
  /\ st \in 1..Len(stateObjs')
  /\ Len(stateObjs'[st].accepted) =
       (IF st \in StateIds THEN Len(stateObjs[st].accepted) ELSE 0) + 1

\* C13: the step that accepts a chunk, of any of the six payload types,
\* sets the status of the session to capturing and broadcasts exactly one
\* event, of the capturing phase of the payload type and of progress
\* receivedChunks / expectedChunks clamped to 1.
C13_AcceptedChunkEmitsProgress ==
  [][\A st \in 1..Len(stateObjs') :
       ChunkAccepted(st)
       => LET state == stateObjs'[st]
          IN /\ sessions'[state.sessionId].status = "capturing"
             /\ emitted' = Append(emitted, [sessionId |-> state.sessionId,
                                            phase |-> CapturingPhase(state.payloadType),
                                            progress |-> ClampedProgress(state)])]_vars

\* The assembly st is an entry of the in-flight map `states` / `maps`.
InMap(states, maps, st) ==
  \E i \in 1..Len(states) :
    \E j \in 1..Len(maps[states[i][2]]) : maps[states[i][2]][j][2] = st

\* C14: the step that accepts the chunk bringing receivedChunks to
\* expectedChunks does not acknowledge it but starts the finalization (so
\* for a single chunk 0 of 1); the acknowledgement comes with the step that
\* completes the finalization, after which the assembly is no entry of the
\* in-flight map and the session has no empty map left there.
C14_LastChunkFinalizes ==
  [][/\ \A st \in 1..Len(stateObjs') :
          (ChunkAccepted(st)
           /\ stateObjs'[st].receivedChunks >= stateObjs'[st].expectedChunks)
          => /\ lastResp' = lastResp
             /\ \E rid \in DOMAIN handlers' :
                  /\ handlers'[rid].kind = "chunk"
                  /\ handlers'[rid].pc = "finalize"
                  /\ handlers'[rid].state = st
     /\ \A rid \in DOMAIN handlers :
          LastChunkAcknowledged(rid)
          => LET state == stateObjs'[handlers[rid].state]
             IN /\ state.finalized >= 1
                /\ ~InMap(snapshotStates', mapObjs', handlers[rid].state)
                /\ MapHas(snapshotStates', state.sessionId)
                     => mapObjs'[MapGet(snapshotStates', state.sessionId)] # <<>>]_vars

\* The second chunk of an upload of two was acknowledged: the assembly is
\* finalized and the in-flight map is empty.
C14_Witness ==
  /\ lastResp.route = "chunk"
  /\ lastResp.code = 202
  /\ snapshotStates = <<>>
  /\ \E st \in StateIds :
       /\ Len(stateObjs[st].accepted) = 2
       /\ stateObjs[st].expectedChunks = 2
       /\ stateObjs[st].finalized = 1

IsOpen(c) == c \in DOMAIN progressClients /\ progressClients[c] = "OPEN"

\* C15: a socket that attaches receives the snapshot of the sessions the
\* registry holds at that moment; in every state the messages of a socket
\* are that snapshot followed by the events broadcast from its attachment
\* on, each once and in the broadcast order, up to the last event for a
\* socket that is open, and the snapshot holds the sessions created before
\* the first of these events.
C15_ObserverSequence ==
  /\ \A c \in ClientIds \ DOMAIN delivered :
       LET R == connection(World, c)
       IN /\ R.delivered[c] =
               <<[type |-> "clone:snapshot",
                  sessions |-> [s \in DOMAIN sessions |-> serializeSession(sessions[s])]]>>
          /\ R.progressClients[c] = "OPEN"
          /\ \A c2 \in DOMAIN delivered : R.delivered[c2] = delivered[c2]
          /\ R.emitted = emitted
  /\ \A c \in DOMAIN delivered :
       LET msgs == delivered[c]
           rest == Tail(msgs)
       IN /\ msgs # <<>>
          /\ msgs[1].type = "clone:snapshot"
          /\ \A k \in 1..Len(rest) : rest[k].type = "clone:progress"
          /\ \E i \in 0..Len(emitted) :
               /\ i + Len(rest) <= Len(emitted)
               /\ \A k \in 1..Len(rest) : rest[k].event = emitted[i + k]
               /\ DOMAIN msgs[1].sessions = {emitted[k].sessionId : k \in 1..i}
               /\ IsOpen(c) => i + Len(rest) = Len(emitted)

\* A socket has received a snapshot holding a session and then an event,
\* and another event was broadcast after it had closed.
C15_Witness ==
  \E c \in DOMAIN delivered :
    /\ DOMAIN delivered[c][1].sessions # {}
    /\ Len(delivered[c]) = 2
    /\ ~IsOpen(c)
    /\ Len(emitted) = 3
    /\ delivered[c][2].event = emitted[2]
    /\ emitted[3] # emitted[2]

\* The event the RecordProgress action records for session s.
RecordedEvent(s) == [sessionId |-> s, phase |-> "processing", progress |-> <<1, 2>>]

\* A finish request has set a terminal status and has returned.
Closed(s) ==
  /\ s \in DOMAIN sessions
  /\ sessions[s].status \in Terminal
  /\ \A rid \in DOMAIN handlers :
       ~(handlers[rid].kind = "finish" /\ handlers[rid].sessionId = s)

\* C16: no step broadcasts the event recorded for a session that is
\* unknown or closed, or makes it the lastProgress of a session.
C16_ClosedSessionDropsProgress ==
  [][\A s \in SessionIds :
       (s \notin DOMAIN sessions \/ Closed(s))
       => /\ ~(/\ Len(emitted') = Len(emitted) + 1
               /\ emitted'[Len(emitted')] = RecordedEvent(s))
          /\ \A s2 \in DOMAIN sessions :
               sessions'[s2].lastProgress = RecordedEvent(s)
                 => sessions[s2].lastProgress = RecordedEvent(s)]_vars

\* C17: in the step in which shutdown closes the progress sockets and
\* returns, no session has an assembly in the in-flight map and every
\* assembly that was created has been flushed.
C17_ShutdownFinalizesAll ==
  [][(service # "closed" /\ service' = "closed")
       => /\ \A s \in DOMAIN sessions' : ~InFlight(snapshotStates', mapObjs', s)
          /\ \A st \in 1..Len(stateObjs') :
               InMap(snapshotStates, mapObjs, st) => stateObjs'[st].finalized >= 1]_vars

\* ------------------------------------------------------ workspace paths
NextPaths == NextWith(StartBodies, {"dom", TraversalType})

SpecPaths == Init /\ [][NextPaths]_vars

\* C18: the file of every assembly lies in the workspace of the session
\* whose chunk created the assembly, and every file that exists is the file
\* of an assembly of the session in whose workspace it lies.
C18_FilesInsideWorkspace ==
  /\ \A st \in StateIds : stateObjs[st].filePath[1] = stateObjs[st].sessionId
  /\ \A p \in DOMAIN files :
       \E st \in StateIds :
         stateObjs[st].filePath = p /\ stateObjs[st].sessionId = p[1]

(***************************************************************************)
(* Styles finalization: dedupeStylesheets.                                 *)
(*                                                                         *)
(* A stylesheet entry is a record; href "" stands for an href that is      *)
(* absent, not a string or empty (all three are falsy in `href ? ...`),    *)
(* type "" for an absent type, hash "" for an entry without a hash field.  *)
(* An array element that is not an object has isObject = FALSE.            *)
(***************************************************************************)
MaxSheets == 3

Hrefs == {"", "a.css", "b.css"}

SheetTypes == {"", "style"}

Contents == {"x", "y"}

\* sha256 of the content in hex: distinct contents have distinct digests
sha256(content) == "sha256(" \o content \o ")"

NotAnObject ==
  [isObject |-> FALSE, href |-> "", type |-> "", content |-> "", hash |-> ""]

Sheets ==
  { [isObject |-> TRUE, href |-> h, type |-> t, content |-> c, hash |-> ""] :
      h \in Hrefs, t \in SheetTypes, c \in Contents }
  \cup {NotAnObject}

SheetLists == UNION { [1..n -> Sheets] : n \in 0..MaxSheets }

\* new Date().toISOString() when the payload carries no capturedAt string
Now == "now"

StylePayloads ==
  { [stylesheets |-> l, computedStyles |-> <<>>, capturedAt |-> t] :
      l \in SheetLists, t \in {"", "t0"} }

sheetKey(sheet) ==
  IF sheet.href # ""
  THEN sheet.href
  ELSE (IF sheet.type # "" THEN sheet.type ELSE "inline")
         \o ":" \o sha256(sheet.content)

RECURSIVE dedupeLoop(_, _, _)
dedupeLoop(stylesheets, seen, deduped) ==
  IF stylesheets = <<>> THEN deduped
  ELSE
    LET sheet == Head(stylesheets)
        hash  == sha256(sheet.content)
        key   == sheetKey(sheet)
    IN  IF ~sheet.isObject
        THEN dedupeLoop(Tail(stylesheets), seen, deduped)
        ELSE IF MapHas(seen, key) /\ MapGet(seen, key) = hash
        THEN dedupeLoop(Tail(stylesheets), seen, deduped)
        ELSE dedupeLoop(Tail(stylesheets), MapSet(seen, key, hash),
                        Append(deduped, [sheet EXCEPT !.hash = hash]))

dedupeStylesheets(payload) ==
  [ capturedAt     |-> IF payload.capturedAt # "" THEN payload.capturedAt ELSE Now,
    stylesheets    |-> dedupeLoop(payload.stylesheets, <<>>, <<>>),
    computedStyles |-> payload.computedStyles ]

InitStyles ==
  /\ ServiceInit(0)
  /\ call \in { [fn |-> "dedupeStylesheets", input |-> p, output |-> <<>>,
                  done |-> FALSE] : p \in StylePayloads }

Dedupe ==
  /\ call.fn = "dedupeStylesheets"
  /\ ~call.done
  /\ call' = [call EXCEPT !.output = dedupeStylesheets(call.input),
                           !.done = TRUE]
  /\ UNCHANGED serviceVars

NextStyles == Dedupe

SpecStyles == InitStyles /\ [][NextStyles]_vars

Deduped == call.fn = "dedupeStylesheets" /\ call.done

\* C19: the result of the styles deduplication never holds two entries with
\* the same key and the same content hash, whatever the order of the input;
\* of two input entries with different hrefs and identical content both are
\* retained; and deduplicating the result again changes nothing.
C19_StylesDeduplicated ==
  Deduped =>
    LET input  == call.input.stylesheets
        result == call.output.stylesheets
    IN  /\ \A i, j \in 1..Len(result) :
             i < j => ~( /\ sheetKey(result[i]) = sheetKey(result[j])
                         /\ result[i].hash = result[j].hash )
        /\ \A i, j \in 1..Len(input) :
             ( /\ input[i].isObject /\ input[j].isObject
               /\ input[i].href # "" /\ input[j].href # ""
               /\ input[i].href # input[j].href
               /\ input[i].content = input[j].content )
             => \A k \in {i, j} :
                  \E r \in 1..Len(result) :
                    /\ result[r].href = input[k].href
                    /\ result[r].content = input[k].content
        /\ dedupeStylesheets(call.output) = call.output

(***************************************************************************)
(* Asset resolution: processAssetPayload.                                  *)
(*                                                                         *)
(* A URL is a record of its scheme, host and path segments; scheme "" is a *)
(* relative reference, which new URL(url, base) resolves against the base, *)
(* dropping "." segments.  A URL with scheme "http" and no host, and a     *)
(* relative reference without a base, make new URL throw.                  *)
(***************************************************************************)
MaxCandidates == 3

NoUrl == [scheme |-> "", host |-> "", path |-> <<>>]

GoodBase == [scheme |-> "http", host |-> "h", path |-> <<>>]

NotAString == [scheme |-> "notastring", host |-> "", path |-> <<>>]

CandidateUrls ==
  { [scheme |-> "",     host |-> "",  path |-> <<"a.png">>],
    [scheme |-> "",     host |-> "",  path |-> <<".", "a.png">>],
    [scheme |-> "http", host |-> "h", path |-> <<"a.png">>],
    [scheme |-> "http", host |-> "h", path |-> <<"b">>],
    [scheme |-> "http", host |-> "",  path |-> <<>>],
    [scheme |-> "data", host |-> "",  path |-> <<"x">>],
    NotAString }

AssetCandidates == { [url |-> u, type |-> "image"] : u \in CandidateUrls }

CandidateLists == UNION { [1..n -> AssetCandidates] : n \in 0..MaxCandidates }

AssetPayloads ==
  { [baseHref |-> b[1], documentUrl |-> b[2], assets |-> l] :
      b \in { <<NoUrl, NoUrl>>, <<GoodBase, NoUrl>>, <<NoUrl, GoodBase>> },
      l \in CandidateLists }

RECURSIVE pathText(_)
pathText(path) ==
  IF path = <<>> THEN ""
  ELSE IF Len(path) = 1 THEN Head(path)
  ELSE Head(path) \o "/" \o pathText(Tail(path))

\* the text of a URL as the candidate carries it
urlText(u) ==
  CASE u.scheme = ""     -> pathText(u.path)
    [] u.scheme = "data" -> "data:" \o pathText(u.path)
    [] OTHER             -> u.scheme \o "://" \o u.host \o "/" \o pathText(u.path)

removeDots(path) == SelectSeq(path, LAMBDA seg : seg # ".")

InvalidUrl == [scheme |-> "invalid", host |-> "", path |-> <<>>]

\* new URL(url, base), InvalidUrl when the constructor throws
parseUrl(url, base) ==
  CASE url.scheme = "data" -> url
    [] url.scheme = "http" ->
         IF url.host = "" THEN InvalidUrl
         ELSE [url EXCEPT !.path = removeDots(url.path)]
    [] OTHER ->
         IF base = NoUrl THEN InvalidUrl
         ELSE [base EXCEPT !.path = removeDots(base.path \o url.path)]

isDataUrl(url) == url.scheme = "data"

\* path.extname of the pathname of a URL
extname(url) ==
  IF url.path # <<>> /\ url.path[Len(url.path)] = "a.png" THEN ".png" ELSE ""

inferExtension(url, contentType) ==
  IF extname(url) # "" THEN extname(url)
  ELSE CASE contentType = "image/png"     -> ".png"
         [] contentType = "image/svg+xml" -> ".svg"
         [] OTHER                         -> ""

\* what the network and the file system answer to one download
FetchOutcomes ==
  { [kind |-> "ok", body |-> b, contentType |-> t] :
      b \in Contents, t \in {"image/png", ""} }
  \cup { [kind |-> k, body |-> "", contentType |-> ""] :
           k \in {"http404", "fetchThrows", "writeThrows"} }

manifestEntry(originalUrl, status, type, error, localPath) ==
  [originalUrl |-> originalUrl, status |-> status, type |-> type,
   error |-> error, localPath |-> localPath]

assetCall(payload) ==
  [fn |-> "processAssetPayload", input |-> payload, pc |-> "mkdir",
   index |-> 0, manifest |-> <<>>, seen |-> {}, fetched |-> <<>>,
   written |-> {}, output |-> <<>>, done |-> FALSE]

\* the loop iteration without seen.add(resolvedUrl)
processCandidate_ForgetsSeen(c, outcome) ==
  LET candidate   == c.input.assets[c.index + 1]
      baseHref    == IF c.input.baseHref # NoUrl THEN c.input.baseHref
                     ELSE c.input.documentUrl
      parsed      == parseUrl(candidate.url, baseHref)
      resolvedUrl == urlText(parsed)
      next        == [c EXCEPT !.index = c.index + 1]
      push(n, e)  == [n EXCEPT !.manifest = Append(n.manifest, e)]
      fetching    == [next EXCEPT !.fetched = Append(c.fetched, resolvedUrl)]
      hash        == sha256(outcome.body)
      relativePath == "assets/" \o hash
                        \o inferExtension(parsed, outcome.contentType)
  IN  IF candidate.url = NotAString THEN next
      ELSE IF parsed = InvalidUrl
      THEN push(next, manifestEntry(urlText(candidate.url), "failed",
                                    candidate.type, "Invalid URL", ""))
      ELSE IF isDataUrl(parsed)
      THEN push(next, manifestEntry(resolvedUrl, "skipped", candidate.type,
                                    "Data URLs are not downloaded", ""))
      ELSE IF resolvedUrl \in c.seen
      THEN push(next, manifestEntry(resolvedUrl, "skipped", candidate.type,
                                    "Duplicate URL", ""))
      ELSE CASE outcome.kind = "http404" ->
                  push(fetching, manifestEntry(resolvedUrl, "failed",
                                               candidate.type, "HTTP 404", ""))
             [] outcome.kind = "fetchThrows" ->
                  push(fetching, manifestEntry(resolvedUrl, "failed",
                                               candidate.type, "fetch failed", ""))
             [] outcome.kind = "writeThrows" ->
                  push(fetching, manifestEntry(resolvedUrl, "failed",
                                               candidate.type, "write failed", ""))
             [] outcome.kind = "ok" ->
                  push([fetching EXCEPT !.written = c.written \cup {relativePath}],
                       manifestEntry(resolvedUrl, "downloaded", candidate.type,
                                     "", relativePath))

\* the loop iteration without the catch around the download
processCandidate_ThrowAborts(c, outcome) ==
  LET candidate   == c.input.assets[c.index + 1]
      baseHref    == IF c.input.baseHref # NoUrl THEN c.input.baseHref
                     ELSE c.input.documentUrl
      parsed      == parseUrl(candidate.url, baseHref)
      resolvedUrl == urlText(parsed)
      next        == [c EXCEPT !.index = c.index + 1]
      push(n, e)  == [n EXCEPT !.manifest = Append(n.manifest, e)]
      fetching    == [next EXCEPT !.seen = c.seen \cup {resolvedUrl},
                                  !.fetched = Append(c.fetched, resolvedUrl)]
      hash        == sha256(outcome.body)
      relativePath == "assets/" \o hash
                        \o inferExtension(parsed, outcome.contentType)
  IN  IF candidate.url = NotAString THEN next
      ELSE IF parsed = InvalidUrl
      THEN push(next, manifestEntry(urlText(candidate.url), "failed",
                                    candidate.type, "Invalid URL", ""))
      ELSE IF isDataUrl(parsed)
      THEN push(next, manifestEntry(resolvedUrl, "skipped", candidate.type,
                                    "Data URLs are not downloaded", ""))
      ELSE IF resolvedUrl \in c.seen
      THEN push(next, manifestEntry(resolvedUrl, "skipped", candidate.type,
                                    "Duplicate URL", ""))
      ELSE CASE outcome.kind = "http404" ->
                  push(fetching, manifestEntry(resolvedUrl, "failed",
                                               candidate.type, "HTTP 404", ""))
             [] outcome.kind = "fetchThrows" ->
                  [fetching EXCEPT !.pc = "rejected"]
             [] outcome.kind = "writeThrows" ->
                  push(fetching, manifestEntry(resolvedUrl, "failed",
                                               candidate.type, "write failed", ""))
             [] outcome.kind = "ok" ->
                  push([fetching EXCEPT !.written = c.written \cup {relativePath}],
                       manifestEntry(resolvedUrl, "downloaded", candidate.type,
                                     "", relativePath))

\* one iteration of the loop over the candidates
processCandidate(c, outcome) ==
  LET candidate   == c.input.assets[c.index + 1]
      baseHref    == IF c.input.baseHref # NoUrl THEN c.input.baseHref
                     ELSE c.input.documentUrl
      parsed      == parseUrl(candidate.url, baseHref)
      resolvedUrl == urlText(parsed)
      next        == [c EXCEPT !.index = c.index + 1]
      push(n, e)  == [n EXCEPT !.manifest = Append(n.manifest, e)]
      fetching    == [next EXCEPT !.seen = c.seen \cup {resolvedUrl},
                                  !.fetched = Append(c.fetched, resolvedUrl)]
      hash        == sha256(outcome.body)
      relativePath == "assets/" \o hash
                        \o inferExtension(parsed, outcome.contentType)
  IN  IF candidate.url = NotAString THEN next
      ELSE IF parsed = InvalidUrl
      THEN push(next, manifestEntry(urlText(candidate.url), "failed",
                                    candidate.type, "Invalid URL", ""))
      ELSE IF isDataUrl(parsed)
      THEN push(next, manifestEntry(resolvedUrl, "skipped", candidate.type,
                                    "Data URLs are not downloaded", ""))
      ELSE IF resolvedUrl \in c.seen
      THEN push(next, manifestEntry(resolvedUrl, "skipped", candidate.type,
                                    "Duplicate URL", ""))
      ELSE CASE outcome.kind = "http404" ->
                  push(fetching, manifestEntry(resolvedUrl, "failed",
                                               candidate.type, "HTTP 404", ""))
             [] outcome.kind = "fetchThrows" ->
                  push(fetching, manifestEntry(resolvedUrl, "failed",
                                               candidate.type, "fetch failed", ""))
             [] outcome.kind = "writeThrows" ->
                  push(fetching, manifestEntry(resolvedUrl, "failed",
                                               candidate.type, "write failed", ""))
             [] outcome.kind = "ok" ->
                  push([fetching EXCEPT !.written = c.written \cup {relativePath}],
                       manifestEntry(resolvedUrl, "downloaded", candidate.type,
                                     "", relativePath))

processAssetPayload(c) ==
  [c EXCEPT !.pc = "returned", !.done = TRUE,
            !.output = [ documentUrl |-> c.input.documentUrl,
                         baseHref |-> IF c.input.baseHref # NoUrl
                                      THEN c.input.baseHref
                                      ELSE c.input.documentUrl,
                         assets |-> c.manifest ]]

InitAssets ==
  /\ ServiceInit(0)
  /\ call \in { assetCall(p) : p \in AssetPayloads }

AssetsMkdir(ok) ==
  /\ call.fn = "processAssetPayload"
  /\ call.pc = "mkdir"
  /\ call' = [call EXCEPT !.pc = IF ok THEN "loop" ELSE "rejected"]
  /\ UNCHANGED serviceVars

AssetsCandidate(outcome) ==
  /\ call.fn = "processAssetPayload"
  /\ call.pc = "loop"
  /\ call.index < Len(call.input.assets)
  /\ call' = processCandidate(call, outcome)
  /\ UNCHANGED serviceVars

AssetsReturn ==
  /\ call.fn = "processAssetPayload"
  /\ call.pc = "loop"
  /\ call.index = Len(call.input.assets)
  /\ call' = processAssetPayload(call)
  /\ UNCHANGED serviceVars

NextAssets ==
  \/ \E ok \in BOOLEAN : AssetsMkdir(ok)
  \/ \E outcome \in FetchOutcomes : AssetsCandidate(outcome)
  \/ AssetsReturn

SpecAssets == InitAssets /\ [][NextAssets]_vars

Returned == call.fn = "processAssetPayload" /\ call.pc = "returned"

BatchBase ==
  IF call.input.baseHref # NoUrl THEN call.input.baseHref
  ELSE call.input.documentUrl

\* the candidates of the batch that resolve to the URL with text u
ResolvingTo(u) ==
  { i \in 1..Len(call.input.assets) :
      LET parsed == parseUrl(call.input.assets[i].url, BatchBase)
      IN  /\ call.input.assets[i].url # NotAString
          /\ parsed # InvalidUrl
          /\ ~isDataUrl(parsed)
          /\ urlText(parsed) = u }

EntriesOf(u, statuses) ==
  { e \in 1..Len(call.output.assets) :
      /\ call.output.assets[e].originalUrl = u
      /\ call.output.assets[e].status \in statuses }

ResolvedUrls ==
  { urlText(parseUrl(url, base)) : url \in CandidateUrls \ {NotAString},
                                   base \in {NoUrl, GoodBase} }

\* C20: when a batch returns, every resolved non-data URL that k >= 1 of its
\* candidates resolve to has exactly one manifest entry with status
\* downloaded or failed, which precedes its k-1 entries with status skipped,
\* and has been fetched at most once.
C20_AssetsDeduplicated ==
  Returned =>
    \A u \in ResolvedUrls :
      LET k == Cardinality(ResolvingTo(u))
      IN  k >= 1 =>
            /\ Cardinality(EntriesOf(u, {"downloaded", "failed"})) = 1
            /\ Cardinality(EntriesOf(u, {"skipped"})) = k - 1
            /\ \A e \in EntriesOf(u, {"downloaded", "failed"}) :
                 \A d \in EntriesOf(u, {"skipped"}) : e < d
            /\ Cardinality({ f \in 1..Len(call.fetched) : call.fetched[f] = u }) <= 1

\* a returned batch in which a relative and an absolute candidate resolve to
\* the same URL, the first downloaded and the second skipped as a duplicate
C20_Witness ==
  /\ Returned
  /\ \E i, j \in ResolvingTo("http://h/a.png") :
       /\ i < j
       /\ call.input.assets[i].url # call.input.assets[j].url
  /\ EntriesOf("http://h/a.png", {"downloaded"}) # {}
  /\ EntriesOf("http://h/a.png", {"skipped"}) # {}

StringCandidates ==
  SelectSeq(call.input.assets, LAMBDA candidate : candidate.url # NotAString)

\* the URL the manifest entry of a candidate carries
EntryUrl(candidate) ==
  LET parsed == parseUrl(candidate.url, BatchBase)
  IN  IF parsed = InvalidUrl THEN urlText(candidate.url) ELSE urlText(parsed)

Looping ==
  /\ call.fn = "processAssetPayload"
  /\ call.pc = "loop"
  /\ call.index < Len(call.input.assets)

\* C21: whatever the download of a candidate answers, the loop goes on to
\* the next candidate; a candidate with a string URL adds exactly one
\* manifest entry, and that entry is failed with a reason when the URL does
\* not resolve, the response is not a success, or the fetch or the file
\* write throws.  A returned manifest has one entry per candidate with a
\* string URL, in candidate order.
C21_FailureDoesNotAbortBatch ==
  /\ Looping =>
       \A outcome \in FetchOutcomes :
         LET R         == processCandidate(call, outcome)
             candidate == call.input.assets[call.index + 1]
             parsed    == parseUrl(candidate.url, BatchBase)
             fetches   == /\ parsed # InvalidUrl
                          /\ ~isDataUrl(parsed)
                          /\ urlText(parsed) \notin call.seen
         IN  /\ R.pc = "loop"
             /\ R.index = call.index + 1
             /\ IF candidate.url = NotAString
                THEN R.manifest = call.manifest
                ELSE /\ Len(R.manifest) = Len(call.manifest) + 1
                     /\ SubSeq(R.manifest, 1, Len(call.manifest)) = call.manifest
                     /\ R.manifest[Len(R.manifest)].originalUrl = EntryUrl(candidate)
                     /\ (parsed = InvalidUrl \/ (fetches /\ outcome.kind # "ok"))
                        => /\ R.manifest[Len(R.manifest)].status = "failed"
                           /\ R.manifest[Len(R.manifest)].error # ""
  /\ Returned =>
       /\ Len(call.output.assets) = Len(StringCandidates)
       /\ \A i \in 1..Len(StringCandidates) :
            call.output.assets[i].originalUrl = EntryUrl(StringCandidates[i])

\* a returned batch whose first candidate failed in the download and whose
\* later candidate was downloaded
C21_Witness ==
  /\ Returned
  /\ Len(call.output.assets) >= 2
  /\ call.output.assets[1].status = "failed"
  /\ call.output.assets[1].error # "Invalid URL"
  /\ \E i \in 2..Len(call.output.assets) :
       call.output.assets[i].status = "downloaded"

(***************************************************************************)
(* The token compiler: StyleCompiler.inferTokens.                          *)
(*                                                                         *)
(* A CSS value is the sequence of its whitespace-separated parts.  A part  *)
(* is a record: a number with a unit ("16px", "0", "1em"), an rgb()        *)
(* function with its integer arguments, a hex colour with its digits, a    *)
(* colour name or a keyword.  A style dictionary is a function from the    *)
(* property names it holds to values.  A JSON document is a record, an     *)
(* array a sequence; JSON.parse(JSON.stringify(d)) is d for the documents  *)
(* of the model, which hold strings, arrays and objects only.              *)
(***************************************************************************)
Length(num, unit) == [kind |-> "length", num |-> num, unit |-> unit]

Rgb(r, g, b) == [kind |-> "rgb", args |-> <<r, g, b>>]

Hex(digits) == [kind |-> "hex", digits |-> digits]

Hsl(text) == [kind |-> "hsl", name |-> text]

Named(name) == [kind |-> "named", name |-> name]

Keyword(name) == [kind |-> "keyword", name |-> name]

colorProperties ==
  << "color", "backgroundColor", "borderColor", "borderTopColor",
     "borderRightColor", "borderBottomColor", "borderLeftColor",
     "outlineColor", "boxShadow", "textShadow" >>

spacingProperties ==
  << "margin", "marginTop", "marginRight", "marginBottom", "marginLeft",
     "padding", "paddingTop", "paddingRight", "paddingBottom", "paddingLeft",
     "width", "height", "top", "right", "bottom", "left",
     "gap", "rowGap", "columnGap", "borderRadius" >>

namedColors ==
  << "red", "blue", "green", "yellow", "orange", "purple", "pink", "gray",
     "black", "white" >>

\* value === keyword, for a value that is one keyword
IsKeyword(value, name) == value = <<Keyword(name)>>

HexDigits ==
  << "0", "1", "2", "3", "4", "5", "6", "7", "8", "9",
     "a", "b", "c", "d", "e", "f" >>

toLowerCase(digit) ==
  CASE digit = "A" -> "a" [] digit = "B" -> "b" [] digit = "C" -> "c"
    [] digit = "D" -> "d" [] digit = "E" -> "e" [] digit = "F" -> "f"
    [] OTHER -> digit

\* Math.max(0, Math.min(255, v)).toString(16).padStart(2, "0")
toHex(v) ==
  LET clamped == IF v < 0 THEN 0 ELSE IF v > 255 THEN 255 ELSE v
  IN  HexDigits[(clamped \div 16) + 1] \o HexDigits[(clamped % 16) + 1]

RECURSIVE concat(_)
concat(strings) ==
  IF strings = <<>> THEN "" ELSE Head(strings) \o concat(Tail(strings))

convertRgbToHex(rgb) ==
  "#" \o toHex(rgb.args[1]) \o toHex(rgb.args[2]) \o toHex(rgb.args[3])

\* the colours found in a value: the rgb() matches, the hsl() matches, the
\* hex matches, then the names of namedColors the value contains, in the
\* order of that list
parseColorValue(value) ==
  SelectSeq(value, LAMBDA part : part.kind = "rgb")
  \o SelectSeq(value, LAMBDA part : part.kind = "hsl")
  \o SelectSeq(value, LAMBDA part : part.kind = "hex")
  \o SelectSeq([i \in 1..Len(namedColors) |-> Named(namedColors[i])],
               LAMBDA color : \E p \in 1..Len(value) : value[p] = color)

normalizeColor(color) ==
  CASE color.kind = "hex" ->
         "#" \o concat([i \in 1..Len(color.digits) |-> toLowerCase(color.digits[i])])
    [] color.kind = "rgb" -> convertRgbToHex(color)
    [] color.kind = "keyword" -> ""
    [] OTHER -> color.name

\* the text of a part of a spacing value
lengthText(part) ==
  CASE part.kind = "length" -> ToString(part.num) \o part.unit
    [] part.kind \in {"named", "keyword"} -> part.name
    [] OTHER -> "color"

\* value.split(/\s+/).filter(v => v && v !== "0")
parseSpacingValue(value) ==
  SelectSeq(value, LAMBDA part : part # Length(0, ""))

endsWithPx(part) == part.kind = "length" /\ part.unit = "px"

\* map.set(key, (map.get(key) || 0) + 1)
tally(map, key) == MapSet(map, key, (IF MapHas(map, key) THEN MapGet(map, key) ELSE 0) + 1)

\* the map after tally(map, key) for every key of keys in order: the keys of
\* the map keep their places, new keys follow in the order of their first
\* occurrence, and every count grows by the occurrences of its key
tallyAll(map, keys) ==
  LET occurrences(key) == Cardinality({ i \in 1..Len(keys) : keys[i] = key })
      old == [ i \in 1..Len(map) |-> <<map[i][1], map[i][2] + occurrences(map[i][1])>> ]
      indexed == [ i \in 1..Len(keys) |-> <<i, keys[i]>> ]
      firsts == SelectSeq(indexed, LAMBDA p :
                  /\ ~MapHas(map, p[2])
                  /\ \A j \in 1..(p[1] - 1) : keys[j] # p[2])
  IN  old \o [ i \in 1..Len(firsts) |-> <<firsts[i][2], occurrences(firsts[i][2])>> ]

NoMaps == [colorMap |-> <<>>, spacingMap |-> <<>>, typographyMap |-> <<>>]

\* styles[prop], the empty value when the dictionary does not hold prop
styleValue(styles, prop) == IF prop \in DOMAIN styles THEN styles[prop] ELSE <<>>

\* the normalized colours of the colour properties of a dictionary, in the
\* order of colorProperties
RECURSIVE colorsOf(_, _)
colorsOf(styles, props) ==
  IF props = <<>> THEN <<>>
  ELSE
    LET value  == styleValue(styles, Head(props))
        colors == parseColorValue(value)
        normalized ==
          SelectSeq([i \in 1..Len(colors) |-> normalizeColor(colors[i])],
                    LAMBDA normalizedColor : normalizedColor # "")
    IN  (IF value # <<>> /\ ~IsKeyword(value, "none") /\ ~IsKeyword(value, "transparent")
         THEN normalized ELSE <<>>)
        \o colorsOf(styles, Tail(props))

extractColors(colorMap, styles) ==
  tallyAll(colorMap, colorsOf(styles, colorProperties))

\* the pixel lengths of the spacing properties of a dictionary, in the order
\* of spacingProperties
RECURSIVE spacingsOf(_, _)
spacingsOf(styles, props) ==
  IF props = <<>> THEN <<>>
  ELSE
    LET value == styleValue(styles, Head(props))
        spacingValues == SelectSeq(parseSpacingValue(value), endsWithPx)
    IN  (IF value # <<>> /\ ~IsKeyword(value, "auto") /\ ~IsKeyword(value, "none")
         THEN spacingValues ELSE <<>>)
        \o spacingsOf(styles, Tail(props))

extractSpacing(spacingMap, styles) ==
  tallyAll(spacingMap, spacingsOf(styles, spacingProperties))

\* the first family of the list, "inherit" for an empty list
normalizeFontFamily(fontFamily) ==
  IF fontFamily = <<>> THEN "inherit" ELSE fontFamily[1].name

\* a value of lineHeight or fontWeight as text, other when it is absent
textOr(value, other) == IF value = <<>> THEN other ELSE lengthText(value[1])

extractTypography(typographyMap, styles) ==
  LET fontSize == styleValue(styles, "fontSize")
      typoKey  ==
        [ fontSize   |-> fontSize,
          lineHeight |-> textOr(styleValue(styles, "lineHeight"), "normal"),
          fontWeight |-> textOr(styleValue(styles, "fontWeight"), "normal"),
          fontFamily |-> normalizeFontFamily(styleValue(styles, "fontFamily")) ]
  IN  IF fontSize # <<>> THEN tally(typographyMap, typoKey) ELSE typographyMap

processStyleObject(maps, styles) ==
  [ colorMap      |-> extractColors(maps.colorMap, styles),
    spacingMap    |-> extractSpacing(maps.spacingMap, styles),
    typographyMap |-> extractTypography(maps.typographyMap, styles) ]

\* forEach over style entries: an entry without styles is passed over
RECURSIVE processEntries(_, _)
processEntries(maps, entries) ==
  IF entries = <<>> THEN maps
  ELSE processEntries(
         IF DOMAIN Head(entries).styles # {}
         THEN processStyleObject(maps, Head(entries).styles)
         ELSE maps,
         Tail(entries))

\* A JSON document on disk: an array of items or an object with fields.
NoFile == [kind |-> "none"]

\* a file whose text JSON.parse rejects
RawText == [kind |-> "text"]

\* existsSync(path) and JSON.parse(content) does not throw
parses(file) == file.kind \in {"array", "object"}

ArrayDoc(items) == [kind |-> "array", items |-> items]

ObjectDoc(fields) == [kind |-> "object", fields |-> fields]

\* a style entry, with the empty dictionary for an entry without styles
StyleEntry(styles) == [styles |-> styles]

analyzeStylesData(maps, stylesData) ==
  LET M1 == IF stylesData.kind = "array"
            THEN processEntries(maps, stylesData.items)
            ELSE maps
  IN  IF stylesData.kind = "object" /\ "styles" \in DOMAIN stylesData.fields
         /\ DOMAIN stylesData.fields.styles # {}
      THEN processStyleObject(M1, stylesData.fields.styles)
      ELSE M1

RECURSIVE analyzeBreakpoints(_, _)
analyzeBreakpoints(maps, breakpoints) ==
  IF breakpoints = <<>> THEN maps
  ELSE analyzeBreakpoints(processEntries(maps, Head(breakpoints).computedStyles),
                          Tail(breakpoints))

analyzeResponsiveData(maps, responsiveData) ==
  IF responsiveData.kind = "object" /\ "breakpoints" \in DOMAIN responsiveData.fields
  THEN analyzeBreakpoints(maps, responsiveData.fields.breakpoints)
  ELSE maps

\* Array.prototype.sort(([,a], [,b]) => b - a): stable, larger counts first
RECURSIVE sortByUsage(_)
sortByUsage(entries) ==
  IF entries = <<>> THEN <<>>
  ELSE LET sorted == sortByUsage(SubSeq(entries, 1, Len(entries) - 1))
           last   == entries[Len(entries)]
           before == SelectSeq(sorted, LAMBDA e : e[2] >= last[2])
           after  == SelectSeq(sorted, LAMBDA e : e[2] < last[2])
       IN  before \o <<last>> \o after

\* array.slice(0, n)
slice(array, n) == SubSeq(array, 1, IF Len(array) < n THEN Len(array) ELSE n)

TopColors == 20

TopSpacing == 15

TopTypography == 10

\* color.includes(name), for the colour texts of the model: a hex text holds
\* no colour name
includes(color, name) == color = name

generateColorName(color, index) ==
  CASE includes(color, "black") \/ color = "#000000" \/ color = "#000" -> "black"
    [] includes(color, "white") \/ color = "#ffffff" \/ color = "#fff" -> "white"
    [] includes(color, "gray") \/ includes(color, "grey") -> "gray-" \o ToString(index + 1)
    [] includes(color, "blue") -> "blue-" \o ToString(index + 1)
    [] includes(color, "red") -> "red-" \o ToString(index + 1)
    [] includes(color, "green") -> "green-" \o ToString(index + 1)
    [] OTHER -> "color-" \o ToString(index + 1)

tailwindScale ==
  << <<0, "0">>, <<1, "0.25">>, <<2, "0.5">>, <<3, "0.75">>, <<4, "1">>,
     <<5, "1.25">>, <<6, "1.5">>, <<8, "2">>, <<10, "2.5">>, <<12, "3">>,
     <<16, "4">>, <<20, "5">>, <<24, "6">>, <<32, "8">>, <<40, "10">>,
     <<48, "12">>, <<64, "16">> >>

generateSpacingName(spacing, index) ==
  IF MapHas(tailwindScale, spacing.num)
  THEN MapGet(tailwindScale, spacing.num)
  ELSE "spacing-" \o ToString(index + 1)

generateTypographyName(typo, index) ==
  LET fontSize == typo.fontSize[1].num
  IN  CASE fontSize <= 12 -> "xs"
        [] fontSize > 12 /\ fontSize <= 14 -> "sm"
        [] fontSize > 14 /\ fontSize <= 16 -> "base"
        [] fontSize > 16 /\ fontSize <= 18 -> "lg"
        [] fontSize > 18 /\ fontSize <= 20 -> "xl"
        [] fontSize > 20 /\ fontSize <= 24 -> "2xl"
        [] fontSize > 24 /\ fontSize <= 30 -> "3xl"
        [] fontSize > 30 /\ fontSize <= 36 -> "4xl"
        [] fontSize > 36 /\ fontSize <= 48 -> "5xl"
        [] OTHER -> "text-" \o ToString(index + 1)

\* The variants of a colour token are not modelled: no property reads them.
generateColorTokens(colorMap) ==
  LET sortedColors == slice(sortByUsage(colorMap), TopColors)
  IN  [ index \in 1..Len(sortedColors) |->
          [ name  |-> generateColorName(sortedColors[index][1], index - 1),
            value |-> sortedColors[index][1],
            usage |-> sortedColors[index][2] ] ]

generateSpacingTokens(spacingMap) ==
  LET sortedSpacing == slice(sortByUsage(spacingMap), TopSpacing)
  IN  [ index \in 1..Len(sortedSpacing) |->
          [ name       |-> generateSpacingName(sortedSpacing[index][1], index - 1),
            value      |-> lengthText(sortedSpacing[index][1]),
            pixelValue |-> sortedSpacing[index][1].num,
            usage      |-> sortedSpacing[index][2] ] ]

generateTypographyTokens(typographyMap) ==
  LET sortedTypo == slice(sortByUsage(typographyMap), TopTypography)
  IN  [ index \in 1..Len(sortedTypo) |->
          LET typo == sortedTypo[index][1]
          IN  [ name       |-> generateTypographyName(typo, index - 1),
                fontSize   |-> lengthText(typo.fontSize[1]),
                lineHeight |-> IF typo.lineHeight # "normal" THEN typo.lineHeight ELSE "",
                fontWeight |-> IF typo.fontWeight # "normal" THEN typo.fontWeight ELSE "",
                fontFamily |-> IF typo.fontFamily # "inherit" THEN typo.fontFamily ELSE "",
                usage      |-> sortedTypo[index][2] ] ]

RECURSIVE unique(_)
unique(values) ==
  IF values = <<>> THEN <<>>
  ELSE LET rest == unique(SubSeq(values, 1, Len(values) - 1))
           last == values[Len(values)]
       IN  IF \E i \in 1..Len(rest) : rest[i] = last THEN rest ELSE Append(rest, last)

generateTokens(maps) ==
  LET colors     == generateColorTokens(maps.colorMap)
      spacing    == generateSpacingTokens(maps.spacingMap)
      typography == generateTypographyTokens(maps.typographyMap)
  IN  [ colors     |-> colors,
        spacing    |-> spacing,
        typography |-> typography,
        summary    |->
          [ primaryColors   |-> [i \in 1..Len(slice(colors, 5)) |-> colors[i].value],
            secondaryColors |-> [i \in 1..(Len(slice(colors, 10)) - Len(slice(colors, 5)))
                                   |-> colors[i + 5].value],
            spacingScale    |-> [i \in 1..Len(slice(spacing, 10)) |-> spacing[i].value],
            fontStacks      |-> unique(SelectSeq(
                                  [i \in 1..Len(typography) |-> typography[i].fontFamily],
                                  LAMBDA fontFamily : fontFamily # "")),
            capturedAt      |-> Now ] ]

\* the compiler without the clearing of its maps
inferTokens_KeepsMaps(maps, workspace) ==
  LET M1 == IF parses(workspace.styles)
            THEN analyzeStylesData(maps, workspace.styles) ELSE maps
      M2 == IF parses(workspace.responsive)
            THEN analyzeResponsiveData(M1, workspace.responsive) ELSE M1
  IN  [maps |-> M2, tokens |-> generateTokens(M2)]

\* inferTokens on a workspace whose files hold JSON documents; the maps of
\* the compiler instance are cleared, filled and turned into tokens
inferTokens(maps, workspace) ==
  LET M0 == NoMaps
      M1 == IF parses(workspace.styles)
            THEN analyzeStylesData(M0, workspace.styles) ELSE M0
      M2 == IF parses(workspace.responsive)
            THEN analyzeResponsiveData(M1, workspace.responsive) ELSE M1
  IN  [maps |-> M2, tokens |-> generateTokens(M2)]

MaxEntries == 2

MaxDistinct == 11

MaxRuns == 2

StyleDictionaries ==
  { [ backgroundColor |-> <<Rgb(255, 0, 0)>>,
      padding         |-> <<Length(16, "px")>> ],
    [ color      |-> <<Hex(<<"F", "F", "0", "0", "0", "0">>)>>,
      margin     |-> <<Length(0, "px"), Length(0, "")>>,
      fontSize   |-> <<Length(16, "px")>>,
      fontFamily |-> <<Named("Arial"), Named("sans-serif")>> ],
    [ color           |-> <<Named("blue")>>,
      backgroundColor |-> <<Keyword("transparent")>>,
      boxShadow       |-> <<Length(0, "px"), Length(4, "px"), Rgb(0, 0, 300)>>,
      width           |-> <<Keyword("auto")>>,
      padding         |-> <<Length(1, "em"), Length(8, "px")>>,
      fontSize        |-> <<Length(16, "px")>>,
      lineHeight      |-> <<Length(24, "px")>> ] }

StyleEntries == { StyleEntry(d) : d \in StyleDictionaries } \cup { StyleEntry(<<>>) }

EntryLists == UNION { [1..n -> StyleEntries] : n \in 0..MaxEntries }

\* the i-th dictionary of a capture with many distinct values
DistinctDictionary(i) ==
  [ color           |-> <<Rgb(i, 0, 0)>>,
    backgroundColor |-> <<Rgb(0, i, 0)>>,
    padding         |-> <<Length(i, "px"), Length(i + 100, "px")>>,
    fontSize        |-> <<Length(i, "px")>> ]

\* n distinct dictionaries, then dictionary a once more and dictionary a or
\* dictionary n once more
RankingLists ==
  UNION { { [i \in 1..n |-> StyleEntry(DistinctDictionary(i))]
              \o << StyleEntry(DistinctDictionary(a)),
                     StyleEntry(DistinctDictionary(IF twice THEN a ELSE n)) >> :
            a \in 1..n, twice \in BOOLEAN } :
          n \in 1..MaxDistinct }

NoUpload == [kind |-> "none"]

\* the styles payloads a capture uploads, parsed
StyleUploads ==
  { [stylesheets |-> <<>>, computedStyles |-> l, capturedAt |-> "t0"] : l \in EntryLists }

ResponsiveDoc(entries) ==
  ObjectDoc([breakpoints |-> << [computedStyles |-> entries] >>])

Workspaces ==
  { [styles |-> s, responsive |-> r] :
      s \in {NoFile, RawText} \cup { ArrayDoc(l) : l \in EntryLists }
            \cup { ObjectDoc([styles |-> d]) : d \in StyleDictionaries },
      r \in {NoFile} \cup { ResponsiveDoc(l) : l \in EntryLists } }
  \cup { [styles |-> ArrayDoc(l), responsive |-> NoFile] : l \in RankingLists }

tokenCall(upload, workspace) ==
  [fn |-> "inferTokens", upload |-> upload, workspace |-> workspace,
   maps |-> NoMaps, tokens |-> generateTokens(NoMaps), runs |-> 0]

\* what the styles branch of persistBufferedSnapshot writes for a payload
\* that parses: the normalized document
normalizedStyles(parsed) == ObjectDoc(dedupeStylesheets(parsed))

InitTokens ==
  /\ ServiceInit(0)
  /\ call \in { tokenCall(u, [styles |-> NoFile, responsive |-> NoFile]) : u \in StyleUploads }
              \cup { tokenCall(NoUpload, w) : w \in Workspaces }

\* the assembler finalizes the uploaded styles payload into styles.json
FinalizeStyles ==
  /\ call.fn = "inferTokens"
  /\ call.upload # NoUpload
  /\ call.workspace.styles = NoFile
  /\ call' = [call EXCEPT !.workspace.styles = normalizedStyles(call.upload)]
  /\ UNCHANGED serviceVars

InferTokens ==
  /\ call.fn = "inferTokens"
  /\ call.runs < MaxRuns
  /\ LET R == inferTokens(call.maps, call.workspace)
     IN  call' = [call EXCEPT !.maps = R.maps, !.tokens = R.tokens,
                              !.runs = call.runs + 1]
  /\ UNCHANGED serviceVars

NextTokens == FinalizeStyles \/ InferTokens

SpecTokens == InitTokens /\ [][NextTokens]_vars

\* the tokens of a compiler that tallies exactly the dictionaries of entries
TokensOf(entries) == generateTokens(processEntries(NoMaps, entries))

\* C22: when inferTokens runs on a workspace whose styles.json the assembler
\* finalized from an uploaded styles payload, its colour, spacing and
\* typography tokens are the tally of the computed-style dictionaries of that
\* payload: the dictionary {backgroundColor: rgb(255, 0, 0), padding: 16px}
\* captured twice gives the colour #ff0000 and the spacing 16px named 4, both
\* with usage 2.
C22_TokensFromPersistedStyles ==
  [][ ( /\ call.fn = "inferTokens"
        /\ call.upload # NoUpload
        /\ parses(call.workspace.styles)
        /\ call'.runs = call.runs + 1 )
      => /\ call'.tokens.colors = TokensOf(call.upload.computedStyles).colors
         /\ call'.tokens.spacing = TokensOf(call.upload.computedStyles).spacing
         /\ call'.tokens.typography = TokensOf(call.upload.computedStyles).typography
    ]_vars

HasRun == call.fn = "inferTokens" /\ call.runs >= 1

\* C23: after a run of the compiler no spacing token has the pixel value 0
\* (neither 0 nor 0px has been tallied), and the value of every spacing
\* token is its pixel value followed by px.
C23_SpacingNonZeroPixels ==
  HasRun =>
    \A i \in 1..Len(call.tokens.spacing) :
      /\ call.tokens.spacing[i].pixelValue # 0
      /\ call.tokens.spacing[i].value
           = ToString(call.tokens.spacing[i].pixelValue) \o "px"

ColorId(token) == token.value

SpacingId(token) == token.value

TypographyId(token) ==
  <<token.fontSize, token.lineHeight, token.fontWeight, token.fontFamily>>

ColorKeyId(key) == key

SpacingKeyId(key) == lengthText(key)

TypographyKeyId(key) ==
  << lengthText(key.fontSize[1]),
     IF key.lineHeight = "normal" THEN "" ELSE key.lineHeight,
     IF key.fontWeight = "normal" THEN "" ELSE key.fontWeight,
     IF key.fontFamily = "inherit" THEN "" ELSE key.fontFamily >>

\* tokens lists the limit most used keys of map, most used first
Ranked(tokens, map, limit, TokenId(_), KeyId(_)) ==
  /\ Len(tokens) = IF Len(map) < limit THEN Len(map) ELSE limit
  /\ \A i, j \in 1..Len(tokens) : i < j => tokens[i].usage >= tokens[j].usage
  /\ \A i \in 1..Len(tokens) :
       \E k \in 1..Len(map) :
         KeyId(map[k][1]) = TokenId(tokens[i]) /\ map[k][2] = tokens[i].usage
  /\ \A k \in 1..Len(map) :
       \/ \E i \in 1..Len(tokens) : TokenId(tokens[i]) = KeyId(map[k][1])
       \/ \A i \in 1..Len(tokens) : map[k][2] <= tokens[i].usage

\* C24: after a run the colour, spacing and typography tokens are the 20, 15
\* and 10 most used values of their category in order of non-increasing
\* usage, so a value used more often than a listed value is listed before
\* it; and a run on a compiler instance that has run before gives the tokens
\* a fresh instance gives on the same workspace.
C24_TokensRankedByUsage ==
  call.fn = "inferTokens" =>
    LET again == inferTokens(call.maps, call.workspace)
        fresh == inferTokens(NoMaps, call.workspace)
    IN  /\ Ranked(again.tokens.colors, again.maps.colorMap, TopColors,
                  ColorId, ColorKeyId)
        /\ Ranked(again.tokens.spacing, again.maps.spacingMap, TopSpacing,
                  SpacingId, SpacingKeyId)
        /\ Ranked(again.tokens.typography, again.maps.typographyMap, TopTypography,
                  TypographyId, TypographyKeyId)
        /\ again = fresh
        /\ HasRun /\ call.tokens # fresh.tokens => call.upload # NoUpload

\* the compiler has run twice on a workspace with more values than are
\* listed in every category, and the most used typography was not the first
\* one tallied
C24_Witness ==
  /\ HasRun
  /\ call.runs = 2
  /\ Len(call.maps.colorMap) > TopColors
  /\ Len(call.maps.spacingMap) > TopSpacing
  /\ Len(call.maps.typographyMap) > TopTypography
  /\ call.tokens.typography[1].usage > call.tokens.typography[2].usage
  /\ TypographyId(call.tokens.typography[1])
       = TypographyKeyId(call.maps.typographyMap[Len(call.maps.typographyMap)][1])

(***************************************************************************)
(* The component classifier: ComponentMapper.mapComponents.                *)
(*                                                                         *)
(* Strings are sequences of characters, so that includes and toLowerCase   *)
(* are computed.  A confidence is a double: <<t, e>> is the double nearest *)
(* to t/10 when e = 0 and its neighbour below or above when e = -1 or 1.   *)
(***************************************************************************)
lowerChar(c) ==
  CASE c = "A" -> "a" [] c = "B" -> "b" [] c = "C" -> "c" [] c = "D" -> "d"
    [] c = "E" -> "e" [] c = "F" -> "f" [] c = "G" -> "g" [] c = "H" -> "h"
    [] c = "I" -> "i" [] c = "J" -> "j" [] c = "K" -> "k" [] c = "L" -> "l"
    [] c = "M" -> "m" [] c = "N" -> "n" [] c = "O" -> "o" [] c = "P" -> "p"
    [] c = "Q" -> "q" [] c = "R" -> "r" [] c = "S" -> "s" [] c = "T" -> "t"
    [] c = "U" -> "u" [] c = "V" -> "v" [] c = "W" -> "w" [] c = "X" -> "x"
    [] c = "Y" -> "y" [] c = "Z" -> "z"
    [] OTHER -> c

lowerCase(s) == [i \in 1..Len(s) |-> lowerChar(s[i])]

\* s.includes(sub)
includesStr(s, sub) ==
  \E i \in 1..(Len(s) - Len(sub) + 1) : SubSeq(s, i, i + Len(sub) - 1) = sub

RECURSIVE trimStart(_)
trimStart(s) == IF s # <<>> /\ Head(s) = " " THEN trimStart(Tail(s)) ELSE s

RECURSIVE trimEnd(_)
trimEnd(s) ==
  IF s # <<>> /\ s[Len(s)] = " " THEN trimEnd(SubSeq(s, 1, Len(s) - 1)) ELSE s

\* s.trim()
trim(s) == trimEnd(trimStart(s))

isDigit(c) == c \in {"0", "1", "2", "3", "4", "5", "6", "7", "8", "9"}

digitValue(c) ==
  CASE c = "0" -> 0 [] c = "1" -> 1 [] c = "2" -> 2 [] c = "3" -> 3 [] c = "4" -> 4
    [] c = "5" -> 5 [] c = "6" -> 6 [] c = "7" -> 7 [] c = "8" -> 8 [] c = "9" -> 9

\* the digits a string begins with
RECURSIVE leadingDigits(_)
leadingDigits(s) ==
  IF s = <<>> \/ ~isDigit(Head(s)) THEN <<>>
  ELSE <<Head(s)>> \o leadingDigits(Tail(s))

RECURSIVE digitsValue(_)
digitsValue(digits) ==
  IF digits = <<>> THEN 0
  ELSE 10 * digitsValue(SubSeq(digits, 1, Len(digits) - 1)) + digitValue(digits[Len(digits)])

\* parseInt(s) of an unsigned string: the number its leading digits write;
\* 0 stands for NaN too, both are falsy
parseInt(s) == digitsValue(leadingDigits(trimStart(s)))

\* the sums of weights that the double addition does not give as the double
\* nearest to the decimal sum: 0.3 + 0.6, 0.6 + 0.3 and 0.7 + 0.2 give
\* 0.8999999999999999, 0.4 + 0.2 gives 0.6000000000000001
InexactSums ==
  << << <<3, 0>>, <<6, 0>>, <<9, -1>> >>,
     << <<6, 0>>, <<3, 0>>, <<9, -1>> >>,
     << <<7, 0>>, <<2, 0>>, <<9, -1>> >>,
     << <<4, 0>>, <<2, 0>>, <<6, 1>> >> >>

\* a + b in doubles; a sum above 1 is kept as its tenths, Math.min cuts it
plus(a, b) ==
  IF \E i \in 1..Len(InexactSums) : InexactSums[i][1] = a /\ InexactSums[i][2] = b
  THEN InexactSums[CHOOSE i \in 1..Len(InexactSums) :
                     InexactSums[i][1] = a /\ InexactSums[i][2] = b][3]
  ELSE <<a[1] + b[1], 0>>

\* a >= b on doubles
atLeast(a, b) == a[1] > b[1] \/ (a[1] = b[1] /\ a[2] >= b[2])

\* Math.min(confidence, 1)
min1(confidence) == IF confidence[1] >= 10 THEN <<10, 0>> ELSE confidence

Weight(tenths) == <<tenths, 0>>

\* classes.filter(cls => className.toLowerCase().includes(cls))
matchedClasses(classes, className) ==
  SelectSeq(classes, LAMBDA cls : includesStr(lowerCase(className), cls))

\* node.attributes as the map of getAttributesMap; "" for a missing attribute
attribute(node, name) ==
  IF name \in DOMAIN node.attributes THEN node.attributes[name] ELSE <<>>

getClassString(node) == attribute(node, "class")

\* the text of an element: its textContent, or the texts of its text children
RECURSIVE childText(_)
childText(childNodes) ==
  IF childNodes = <<>> THEN <<>>
  ELSE (IF Head(childNodes).nodeType = 3 /\ Head(childNodes).textContent # <<>>
        THEN trim(Head(childNodes).textContent) \o <<" ">>
        ELSE <<>>)
       \o childText(Tail(childNodes))

getTextContent(node) ==
  IF node.textContent # <<>> THEN trim(node.textContent)
  ELSE trim(childText(node.childNodes))

hasChildWithTag(node, tagName) ==
  \E i \in 1..Len(node.childNodes) : lowerCase(node.childNodes[i].tagName) = tagName

hasChildWithClass(node, classNames) ==
  \E i \in 1..Len(node.childNodes) :
    \E c \in 1..Len(classNames) :
      includesStr(lowerCase(getClassString(node.childNodes[i])), classNames[c])

NoMatch == [shadcnComponent |-> "", confidence |-> <<0, 0>>, reasoning |-> <<>>]

\* the confidence after the weights whose conditions hold, added in order
RECURSIVE addWeights(_, _)
addWeights(confidence, weights) ==
  IF weights = <<>> THEN confidence
  ELSE addWeights(IF Head(weights)[1] THEN plus(confidence, Head(weights)[2])
                  ELSE confidence,
                  Tail(weights))

\* the reasons of the weights whose conditions hold
reasons(weights) ==
  LET held == SelectSeq(weights, LAMBDA w : w[1])
  IN  [i \in 1..Len(held) |->
         [text |-> Head(held[i][3]), classes |-> Tail(held[i][3])]]

detected(component, weights) ==
  [ shadcnComponent |-> component,
    confidence      |-> min1(addWeights(<<0, 0>>, weights)),
    reasoning       |-> reasons(weights) ]

oneOf(value, values) == \E i \in 1..Len(values) : values[i] = value

\* some keyword of keywords is in the text
someIncluded(text, keywords) ==
  \E i \in 1..Len(keywords) : includesStr(text, keywords[i])

detectButton(node, tagName, className, text) ==
  LET matched == matchedClasses(<< <<"b", "t", "n">>, <<"b", "u", "t", "t", "o", "n">>, <<"c", "t", "a">>, <<"a", "c", "t", "i", "o", "n">>, <<"p", "r", "i", "m", "a", "r", "y">>, <<"s", "e", "c", "o", "n", "d", "a", "r", "y">> >>, className)
      weights ==
        << << tagName = <<"b", "u", "t", "t", "o", "n">>, Weight(8), <<"HTML button element">> >>,
           << attribute(node, "type") = <<"s", "u", "b", "m", "i", "t">>, Weight(3), <<"Submit type button">> >>,
           << Len(matched) > 0, Weight(4 * Len(matched)),
              <<"Button-related classes">> \o matched >>,
           << attribute(node, "role") = <<"b", "u", "t", "t", "o", "n">>, Weight(6), <<"Button role attribute">> >>,
           << /\ oneOf(tagName, << <<"d", "i", "v">>, <<"s", "p", "a", "n">>, <<"a">> >>)
              /\ (attribute(node, "onclick") # <<>> \/ includesStr(className, <<"c", "l", "i", "c", "k">>)),
              Weight(3), <<"Clickable element with button-like behavior">> >>,
           << someIncluded(lowerCase(text),
                           << <<"s", "u", "b", "m", "i", "t">>, <<"s", "a", "v", "e">>, <<"c", "a", "n", "c", "e", "l">>, <<"d", "e", "l", "e", "t", "e">>, <<"e", "d", "i", "t">>, <<"d", "o", "w", "n", "l", "o", "a", "d">>, <<"u", "p", "l", "o", "a", "d">>, <<"s", "i", "g", "n">>, <<"l", "o", "g">> >>),
              Weight(2), <<"Contains button-like text">> >> >>
      variant ==
        CASE includesStr(className, <<"p", "r", "i", "m", "a", "r", "y">>) \/ includesStr(className, <<"m", "a", "i", "n">>)
               -> "primary"
          [] OTHER ->
             CASE includesStr(className, <<"s", "e", "c", "o", "n", "d", "a", "r", "y">>) \/ includesStr(className, <<"o", "u", "t", "l", "i", "n", "e">>)
                    -> "secondary"
               [] OTHER ->
                  CASE includesStr(className, <<"d", "e", "s", "t", "r", "u", "c", "t", "i", "v", "e">>)
                         \/ includesStr(className, <<"d", "a", "n", "g", "e", "r">>) -> "destructive"
                    [] includesStr(className, <<"g", "h", "o", "s", "t">>) -> "ghost"
                    [] OTHER -> "default"
  IN  IF atLeast(addWeights(<<0, 0>>, weights), Weight(3))
      THEN detected("Button (" \o variant \o ")", weights)
      ELSE NoMatch

detectCard(node, tagName, className) ==
  LET matched == matchedClasses(<< <<"c", "a", "r", "d">>, <<"p", "a", "n", "e", "l">>, <<"w", "i", "d", "g", "e", "t">>, <<"t", "i", "l", "e">>, <<"b", "o", "x">> >>, className)
      weights ==
        << << Len(matched) > 0, Weight(6), <<"Card-related classes">> \o matched >>,
           << oneOf(tagName, << <<"d", "i", "v">>, <<"s", "e", "c", "t", "i", "o", "n">>, <<"a", "r", "t", "i", "c", "l", "e">> >>), Weight(2),
              <<"Container element suitable for card">> >>,
           << \/ hasChildWithClass(node, << <<"h", "e", "a", "d", "e", "r">>, <<"t", "i", "t", "l", "e">>, <<"h", "e", "a", "d">> >>)
              \/ hasChildWithClass(node, << <<"b", "o", "d", "y">>, <<"c", "o", "n", "t", "e", "n", "t">>, <<"m", "a", "i", "n">> >>)
              \/ hasChildWithClass(node, << <<"f", "o", "o", "t", "e", "r">>, <<"a", "c", "t", "i", "o", "n", "s">>, <<"b", "u", "t", "t", "o", "n", "s">> >>),
              Weight(3), <<"Contains card-like structure (header/body/footer)">> >> >>
  IN  IF atLeast(addWeights(<<0, 0>>, weights), Weight(3))
      THEN detected("Card", weights)
      ELSE NoMatch

detectNavigation(node, tagName, className) ==
  LET matched == matchedClasses(<< <<"n", "a", "v">>, <<"n", "a", "v", "b", "a", "r">>, <<"m", "e", "n", "u">>, <<"b", "r", "e", "a", "d", "c", "r", "u", "m", "b">>, <<"s", "i", "d", "e", "b", "a", "r">>, <<"h", "e", "a", "d", "e", "r">> >>, className)
      weights ==
        << << tagName = <<"n", "a", "v">>, Weight(8), <<"HTML nav element">> >>,
           << attribute(node, "role") = <<"n", "a", "v", "i", "g", "a", "t", "i", "o", "n">>, Weight(7),
              <<"Navigation role attribute">> >>,
           << Len(matched) > 0, Weight(5), <<"Navigation classes">> \o matched >>,
           << /\ (tagName = <<"u", "l">> \/ tagName = <<"o", "l">>)
              /\ (hasChildWithTag(node, <<"a">>)
                  \/ hasChildWithClass(node, << <<"l", "i", "n", "k">>, <<"n", "a", "v", "-", "i", "t", "e", "m">> >>)),
              Weight(4), <<"List with navigation links">> >> >>
      navType ==
        CASE includesStr(className, <<"b", "r", "e", "a", "d", "c", "r", "u", "m", "b">>) -> "Breadcrumb"
          [] OTHER ->
             CASE includesStr(className, <<"s", "i", "d", "e", "b", "a", "r">>) -> "NavigationMenu (sidebar)"
               [] OTHER ->
                  CASE includesStr(className, <<"n", "a", "v", "b", "a", "r">>)
                         \/ includesStr(className, <<"h", "e", "a", "d", "e", "r">>) -> "NavigationMenu (main)"
                    [] OTHER -> "Navigation"
  IN  IF atLeast(addWeights(<<0, 0>>, weights), Weight(3))
      THEN detected(navType, weights)
      ELSE NoMatch

detectForm(node, tagName, className) ==
  LET matched == matchedClasses(<< <<"f", "o", "r", "m">>, <<"c", "o", "n", "t", "a", "c", "t">>, <<"s", "i", "g", "n", "u", "p">>, <<"l", "o", "g", "i", "n">>, <<"r", "e", "g", "i", "s", "t", "e", "r">> >>, className)
      weights ==
        << << tagName = <<"f", "o", "r", "m">>, Weight(9), <<"HTML form element">> >>,
           << \/ hasChildWithTag(node, <<"i", "n", "p", "u", "t">>)
              \/ hasChildWithTag(node, <<"s", "e", "l", "e", "c", "t">>)
              \/ hasChildWithTag(node, <<"t", "e", "x", "t", "a", "r", "e", "a">>),
              Weight(4), <<"Contains form input elements">> >>,
           << Len(matched) > 0, Weight(3), <<"Form-related classes">> \o matched >> >>
  IN  IF atLeast(addWeights(<<0, 0>>, weights), Weight(3))
      THEN detected("Form", weights)
      ELSE NoMatch

detectInput(node, tagName) ==
  LET inputType == IF attribute(node, "type") # <<>> THEN attribute(node, "type")
                   ELSE <<"t", "e", "x", "t">>
      component ==
        CASE inputType = <<"c", "h", "e", "c", "k", "b", "o", "x">> -> "Checkbox"
          [] inputType = <<"r", "a", "d", "i", "o">> -> "RadioGroup"
          [] inputType = <<"r", "a", "n", "g", "e">> -> "Slider"
          [] inputType = <<"d", "a", "t", "e">> \/ inputType = <<"d", "a", "t", "e", "t", "i", "m", "e", "-", "l", "o", "c", "a", "l">> -> "DatePicker"
          [] inputType = <<"f", "i", "l", "e">> -> "Input (file)"
          [] OTHER -> "Input"
  IN  CASE tagName = <<"i", "n", "p", "u", "t">> ->
             detected(component, << <<TRUE, Weight(8), <<"HTML input element">> >> >>)
        [] tagName = <<"t", "e", "x", "t", "a", "r", "e", "a">> ->
             detected("Textarea", << <<TRUE, Weight(8), <<"HTML textarea element">> >> >>)
        [] tagName = <<"s", "e", "l", "e", "c", "t">> ->
             detected("Select", << <<TRUE, Weight(8), <<"HTML select element">> >> >>)
        [] OTHER -> NoMatch

detectBadge(node, tagName, className, text) ==
  LET matched == matchedClasses(<< <<"b", "a", "d", "g", "e">>, <<"t", "a", "g">>, <<"c", "h", "i", "p">>, <<"l", "a", "b", "e", "l">>, <<"s", "t", "a", "t", "u", "s">> >>, className)
      weights ==
        << << Len(matched) > 0, Weight(7), <<"Badge-related classes">> \o matched >>,
           << /\ oneOf(tagName, << <<"s", "p", "a", "n">>, <<"s", "m", "a", "l", "l">>, <<"d", "i", "v">> >>)
              /\ Len(text) < 20
              /\ Len(trim(text)) > 0,
              Weight(3), <<"Small element with short text content">> >> >>
  IN  IF atLeast(addWeights(<<0, 0>>, weights), Weight(4))
      THEN detected("Badge", weights)
      ELSE NoMatch

detectAvatar(node, tagName, className) ==
  LET imageClasses == matchedClasses(<< <<"a", "v", "a", "t", "a", "r">>, <<"p", "r", "o", "f", "i", "l", "e">>, <<"u", "s", "e", "r">>, <<"p", "h", "o", "t", "o">> >>, className)
      matched == matchedClasses(<< <<"a", "v", "a", "t", "a", "r">>, <<"p", "r", "o", "f", "i", "l", "e">>, <<"u", "s", "e", "r", "-", "p", "h", "o", "t", "o">> >>, className)
      width  == parseInt(attribute(node, "width"))
      height == parseInt(attribute(node, "height"))
      weights ==
        << << tagName = <<"i", "m", "g">> /\ Len(imageClasses) > 0, Weight(8),
              <<"Avatar-related classes">> \o imageClasses >>,
           << /\ tagName = <<"i", "m", "g">>
              /\ attribute(node, "width") # <<>> /\ attribute(node, "height") # <<>>
              /\ width # 0 /\ height # 0
              /\ width - height <= 20 /\ height - width <= 20,
              Weight(3), <<"Square-ish image dimensions">> >>,
           << Len(matched) > 0, Weight(6), <<"Avatar container classes">> \o matched >> >>
  IN  IF atLeast(addWeights(<<0, 0>>, weights), Weight(4))
      THEN detected("Avatar", weights)
      ELSE NoMatch

detectDialog(node, tagName, className) ==
  LET matched == matchedClasses(<< <<"m", "o", "d", "a", "l">>, <<"d", "i", "a", "l", "o", "g">>, <<"p", "o", "p", "u", "p">>, <<"o", "v", "e", "r", "l", "a", "y">>, <<"a", "l", "e", "r", "t">> >>, className)
      role == attribute(node, "role")
      weights ==
        << << tagName = <<"d", "i", "a", "l", "o", "g">>, Weight(9), <<"HTML dialog element">> >>,
           << role = <<"d", "i", "a", "l", "o", "g">> \/ role = <<"a", "l", "e", "r", "t", "d", "i", "a", "l", "o", "g">>, Weight(8),
              <<"Dialog role attribute">> >>,
           << Len(matched) > 0, Weight(6), <<"Dialog-related classes">> \o matched >> >>
      dialogType ==
        IF includesStr(className, <<"a", "l", "e", "r", "t">>) \/ role = <<"a", "l", "e", "r", "t", "d", "i", "a", "l", "o", "g">>
        THEN "AlertDialog" ELSE "Dialog"
  IN  IF atLeast(addWeights(<<0, 0>>, weights), Weight(4))
      THEN detected(dialogType, weights)
      ELSE NoMatch

detectTable(node, tagName, className) ==
  LET matched == matchedClasses(<< <<"t", "a", "b", "l", "e">>, <<"g", "r", "i", "d">>, <<"d", "a", "t", "a", "-", "t", "a", "b", "l", "e">>, <<"d", "a", "t", "a", "t", "a", "b", "l", "e">> >>, className)
      role == attribute(node, "role")
      weights ==
        << << tagName = <<"t", "a", "b", "l", "e">>, Weight(9), <<"HTML table element">> >>,
           << role = <<"t", "a", "b", "l", "e">> \/ role = <<"g", "r", "i", "d">>, Weight(8),
              <<"Table/grid role attribute">> >>,
           << Len(matched) > 0, Weight(7), <<"Table-related classes">> \o matched >> >>
  IN  IF atLeast(addWeights(<<0, 0>>, weights), Weight(4))
      THEN detected("Table", weights)
      ELSE NoMatch

detectLayout(node, tagName, className) ==
  LET sheetMatches == matchedClasses(<< <<"s", "h", "e", "e", "t">>, <<"d", "r", "a", "w", "e", "r">>, <<"s", "i", "d", "e", "b", "a", "r">>, <<"o", "f", "f", "c", "a", "n", "v", "a", "s">> >>, className)
      accordionMatches == matchedClasses(<< <<"a", "c", "c", "o", "r", "d", "i", "o", "n">>, <<"c", "o", "l", "l", "a", "p", "s", "e">>, <<"e", "x", "p", "a", "n", "d">> >>, className)
      tabMatches == matchedClasses(<< <<"t", "a", "b">>, <<"t", "a", "b", "s">> >>, className)
  IN  CASE Len(sheetMatches) > 0 ->
             detected("Sheet", << <<TRUE, Weight(6), <<"Sheet/drawer classes">> \o sheetMatches>> >>)
        [] Len(sheetMatches) = 0 /\ Len(accordionMatches) > 0 ->
             detected("Accordion",
                      << <<TRUE, Weight(6), <<"Accordion classes">> \o accordionMatches>> >>)
        [] /\ Len(sheetMatches) = 0 /\ Len(accordionMatches) = 0
           /\ (Len(tabMatches) > 0 \/ attribute(node, "role") = <<"t", "a", "b", "l", "i", "s", "t">>) ->
             detected("Tabs", << <<TRUE, Weight(7), <<"Tab-related elements">> >> >>)
        [] OTHER -> NoMatch

\* node.nodeId || 'unknown'
nodeIdOf(node) == IF node.nodeId = "" THEN "unknown" ELSE node.nodeId

componentMatch(node, tagName, className, found) ==
  [ nodeId          |-> nodeIdOf(node),
    tagName         |-> tagName,
    className       |-> className,
    shadcnComponent |-> found.shadcnComponent,
    confidence      |-> found.confidence,
    reasoning       |-> found.reasoning,
    attributes      |-> node.attributes ]

\* detectComponent with detectCard tried before detectButton
detectComponent_CardFirst(node) ==
  LET tagName   == lowerCase(node.tagName)
      className == getClassString(node)
      text      == getTextContent(node)
      detectors ==
        << detectCard(node, tagName, className),
           detectButton(node, tagName, className, text),
           detectNavigation(node, tagName, className),
           detectForm(node, tagName, className),
           detectInput(node, tagName),
           detectBadge(node, tagName, className, text),
           detectAvatar(node, tagName, className),
           detectDialog(node, tagName, className),
           detectTable(node, tagName, className),
           detectLayout(node, tagName, className) >>
      found == SelectSeq(detectors, LAMBDA r : r # NoMatch)
  IN  IF found = <<>> THEN <<>>
      ELSE <<componentMatch(node, tagName, className, Head(found))>>

\* the match of an element node, as a sequence of no or one match
detectComponent(node) ==
  LET tagName   == lowerCase(node.tagName)
      className == getClassString(node)
      text      == getTextContent(node)
      detectors ==
        << detectButton(node, tagName, className, text),
           detectCard(node, tagName, className),
           detectNavigation(node, tagName, className),
           detectForm(node, tagName, className),
           detectInput(node, tagName),
           detectBadge(node, tagName, className, text),
           detectAvatar(node, tagName, className),
           detectDialog(node, tagName, className),
           detectTable(node, tagName, className),
           detectLayout(node, tagName, className) >>
      found == SelectSeq(detectors, LAMBDA r : r # NoMatch)
  IN  IF found = <<>> THEN <<>>
      ELSE <<componentMatch(node, tagName, className, Head(found))>>

\* the matches analyzeNode pushes for a node and its descendants
RECURSIVE analyzeNode(_)
analyzeNode(node) ==
  IF node.nodeType # 1 THEN <<>>
  ELSE LET RECURSIVE forEach(_)
           forEach(childNodes) ==
             IF childNodes = <<>> THEN <<>>
             ELSE analyzeNode(Head(childNodes)) \o forEach(Tail(childNodes))
       IN  detectComponent(node) \o forEach(node.childNodes)

\* a sort that puts a match before the earlier matches of its confidence
RECURSIVE sortByConfidence_TiesReversed(_)
sortByConfidence_TiesReversed(components) ==
  IF components = <<>> THEN <<>>
  ELSE LET sorted == sortByConfidence_TiesReversed(SubSeq(components, 1, Len(components) - 1))
           last   == components[Len(components)]
           before == SelectSeq(sorted, LAMBDA c : c.confidence # last.confidence
                                                  /\ atLeast(c.confidence, last.confidence))
           after  == SelectSeq(sorted, LAMBDA c : atLeast(last.confidence, c.confidence))
       IN  before \o <<last>> \o after

\* components.sort((a, b) => b.confidence - a.confidence): stable
RECURSIVE sortByConfidence(_)
sortByConfidence(components) ==
  IF components = <<>> THEN <<>>
  ELSE LET sorted == sortByConfidence(SubSeq(components, 1, Len(components) - 1))
           last   == components[Len(components)]
           before == SelectSeq(sorted, LAMBDA c : atLeast(c.confidence, last.confidence))
           after  == SelectSeq(sorted, LAMBDA c : ~atLeast(c.confidence, last.confidence))
       IN  before \o <<last>> \o after

CONFIDENCE_THRESHOLD == Weight(6)

\* domSnapshot && domSnapshot.root: a snapshot without a root has the root
\* NoRoot
NoRoot ==
  [ nodeType |-> 0, nodeId |-> "", tagName |-> <<>>, attributes |-> [n \in {} |-> <<>>],
    textContent |-> <<>>, childNodes |-> <<>> ]

hasRoot(domSnapshot) == domSnapshot.root.nodeType # 0

summaryOf(filteredComponents) ==
  [ totalComponents |-> Len(filteredComponents),
    componentTypes  |->
      [ t \in { filteredComponents[i].shadcnComponent : i \in 1..Len(filteredComponents) } |->
          Cardinality({ i \in 1..Len(filteredComponents) :
                          filteredComponents[i].shadcnComponent = t }) ],
    highConfidence  |->
      SelectSeq(filteredComponents,
                LAMBDA c : atLeast(c.confidence, CONFIDENCE_THRESHOLD)) ]

mapComponents(domSnapshot) ==
  LET components == IF hasRoot(domSnapshot) THEN analyzeNode(domSnapshot.root)
                    ELSE <<>>
      filteredComponents ==
        sortByConfidence(SelectSeq(components, LAMBDA c : atLeast(c.confidence, Weight(3))))
  IN  [components |-> filteredComponents, summary |-> summaryOf(filteredComponents)]

\* a captured node without children; nodeType 1 is an element, 3 a text
\* node, 8 a comment
Node(nodeType, tagName, attributes, textContent) ==
  [ nodeType |-> nodeType, nodeId |-> "", tagName |-> tagName, attributes |-> attributes,
    textContent |-> textContent, childNodes |-> <<>> ]

NoAttributes == [n \in {} |-> <<>>]

place(node, nodeId, childNodes) ==
  [node EXCEPT !.nodeId = nodeId, !.childNodes = childNodes]

Elements ==
  { Node(1, <<"B", "U", "T", "T", "O", "N">>, [class |-> <<"b", "t", "n", " ", "p", "r", "i", "m", "a", "r", "y">>], <<"S", "a", "v", "e">>),
    Node(1, <<"d", "i", "v">>, [class |-> <<"c", "a", "r", "d">>], <<>>),
    Node(1, <<"d", "i", "v">>, [class |-> <<"C", "a", "r", "d", " ", "a", "c", "t", "i", "o", "n">>], <<>>),
    Node(1, <<"s", "p", "a", "n">>, [class |-> <<"b", "a", "d", "g", "e">>], <<" ", "N", "e", "w", " ">>),
    Node(1, <<"a">>, [onclick |-> <<"g", "o", "(", ")">>], <<>>),
    Node(1, <<"d", "i", "v">>, NoAttributes, <<"S", "a", "v", "e">>),
    Node(1, <<"I", "N", "P", "U", "T">>, [type |-> <<"c", "h", "e", "c", "k", "b", "o", "x">>], <<>>),
    Node(1, <<"d", "i", "v">>, [role |-> <<"b", "u", "t", "t", "o", "n">>, type |-> <<"s", "u", "b", "m", "i", "t">>], <<>>),
    Node(1, <<"i", "m", "g">>, [class |-> <<"a", "v", "a", "t", "a", "r">>, width |-> <<"4", "0">>, height |-> <<"4", "8", "p", "x">>], <<>>),
    Node(1, <<"s", "e", "c", "t", "i", "o", "n">>, [class |-> <<"s", "i", "d", "e", "b", "a", "r">>], <<>>),
    Node(1, <<"p">>, [class |-> <<"t", "a", "b", "s">>], <<>>),
    Node(1, <<"t", "a", "b", "l", "e">>, NoAttributes, <<>>),
    Node(3, <<>>, NoAttributes, <<" ", "l", "o", "g", " ", "i", "n", " ">>) }

Roots ==
  { Node(1, <<"f", "o", "r", "m">>, NoAttributes, <<>>),
    Node(1, <<"u", "l">>, NoAttributes, <<>>),
    Node(1, <<"d", "i", "v">>, NoAttributes, <<>>),
    Node(1, <<"d", "i", "a", "l", "o", "g">>, [role |-> <<"a", "l", "e", "r", "t", "d", "i", "a", "l", "o", "g">>], <<>>),
    Node(8, <<>>, NoAttributes, <<>>) }

Descendants ==
  { Node(1, <<"a">>, [class |-> <<"n", "a", "v", "-", "i", "t", "e", "m">>], <<>>),
    Node(1, <<"d", "i", "v">>, [class |-> <<"c", "a", "r", "d", "-", "t", "i", "t", "l", "e">>], <<>>),
    Node(1, <<"t", "a", "b", "l", "e">>, NoAttributes, <<>>) }

MaxChildren == 2

ChildIds == <<"c1", "c2", "c3", "c4">>

\* the lists of children of a root: the first child may have a child of its
\* own
ChildLists ==
  UNION { { [i \in 1..n |->
              place(children[i], ChildIds[i], IF i = 1 THEN below ELSE <<>>)] :
            children \in [1..n -> Elements],
            below \in {<<>>} \cup { <<place(d, "g1", <<>>)>> : d \in Descendants } } :
          n \in 0..MaxChildren }

DomSnapshots ==
  { [root |-> NoRoot] }
  \cup { [root |-> place(r, "root", childNodes)] : r \in Roots, childNodes \in ChildLists }

MaxMappings == 2

InitComponents ==
  /\ ServiceInit(0)
  /\ call \in { [fn |-> "mapComponents", domSnapshot |-> d, outputs |-> <<>>] :
                d \in DomSnapshots }

MapComponents ==
  /\ call.fn = "mapComponents"
  /\ Len(call.outputs) < MaxMappings
  /\ call' = [call EXCEPT !.outputs = Append(call.outputs, mapComponents(call.domSnapshot))]
  /\ UNCHANGED serviceVars

NextComponents == MapComponents

SpecComponents == InitComponents /\ [][NextComponents]_vars

\* the node ids of a snapshot in depth-first order: the root, its first
\* child, that child's child, the later children
TraversalOrder == <<"root", "c1", "g1", "c2", "c3", "c4">>

traversalIndex(nodeId) ==
  CHOOSE i \in 1..Len(TraversalOrder) : TraversalOrder[i] = nodeId

Mappings == IF call.fn = "mapComponents" THEN call.outputs ELSE <<>>

claimedDetectors(node) ==
  LET tagName   == lowerCase(node.tagName)
      className == getClassString(node)
      text      == getTextContent(node)
  IN  << detectButton(node, tagName, className, text),
         detectCard(node, tagName, className),
         detectNavigation(node, tagName, className),
         detectForm(node, tagName, className),
         detectInput(node, tagName),
         detectBadge(node, tagName, className, text),
         detectAvatar(node, tagName, className),
         detectDialog(node, tagName, className),
         detectTable(node, tagName, className),
         detectLayout(node, tagName, className) >>

clearing(node) == SelectSeq(claimedDetectors(node), LAMBDA r : r # NoMatch)

\* the nodes of a snapshot, whatever their type
nodesOf(domSnapshot) ==
  LET root == domSnapshot.root
      children == { root.childNodes[i] : i \in 1..Len(root.childNodes) }
  IN  {root} \cup children
      \cup UNION { { c.childNodes[i] : i \in 1..Len(c.childNodes) } : c \in children }

\* the elements the traversal visits: the elements whose ancestors are
\* elements
visitedOf(domSnapshot) ==
  LET root == domSnapshot.root
      children == { root.childNodes[i] : i \in 1..Len(root.childNodes) }
      elements(nodes) == { n \in nodes : n.nodeType = 1 }
  IN  IF root.nodeType # 1 THEN {}
      ELSE {root} \cup elements(children)
           \cup UNION { elements({ c.childNodes[i] : i \in 1..Len(c.childNodes) }) :
                        c \in elements(children) }

matchesOf(components, node) ==
  SelectSeq(components, LAMBDA c : c.nodeId = node.nodeId)

\* C26: every element node has at most one match; the match of a node has
\* the label of the first of the detectors button, card, navigation, form,
\* input, badge, avatar, dialog, table, layout that clears its threshold on
\* the node; a node on which no detector clears its threshold has no match;
\* every confidence reported is at least 0.3 and at most 1.
C26_FirstDetectorWins ==
  \A m \in 1..Len(Mappings) :
    LET components == Mappings[m].components
    IN  /\ \A node \in nodesOf(call.domSnapshot) :
              LET matches == matchesOf(components, node)
                  cleared == clearing(node)
              IN  /\ Len(matches) <= 1
                  /\ (node.nodeType # 1 \/ cleared = <<>>) => matches = <<>>
                  /\ (node \in visitedOf(call.domSnapshot) /\ cleared # <<>>)
                       => matches # <<>>
                  /\ matches # <<>> =>
                       /\ node.nodeType = 1
                       /\ matches[1].shadcnComponent = Head(cleared).shadcnComponent
                       /\ matches[1].confidence = Head(cleared).confidence
        /\ \A i \in 1..Len(components) :
              /\ atLeast(components[i].confidence, Weight(3))
              /\ atLeast(Weight(10), components[i].confidence)
              /\ \E node \in nodesOf(call.domSnapshot) : node.nodeId = components[i].nodeId

\* a mapped tree with a matched node on which two detectors clear their
\* thresholds, a visited element without a match, and a match whose
\* confidence is exactly 0.3
C26_Witness ==
  /\ Len(Mappings) >= 1
  /\ LET components == Mappings[1].components
     IN  /\ \E node \in nodesOf(call.domSnapshot) :
               /\ Len(clearing(node)) >= 2
               /\ Head(clearing(node)).shadcnComponent # clearing(node)[2].shadcnComponent
               /\ matchesOf(components, node) # <<>>
         /\ \E node \in nodesOf(call.domSnapshot) :
               node \in visitedOf(call.domSnapshot) /\ matchesOf(components, node) = <<>>
         /\ \E i \in 1..Len(components) : components[i].confidence = Weight(3)

\* ----------------------------------------------- rejected chunks, again
\* C27: a chunk for an assembly in flight that is rejected for its sequence
\* number leaves the expectedChunks of the assembly as it was, whatever
\* totalChunks the chunk declares.
C27_RejectionKeepsExpectedChunks ==
  \A s \in DOMAIN sessions, chunk \in Chunks(ChunkTypes), writeOk \in BOOLEAN :
    LET st == InFlightState(s, chunk.payloadType)
    IN (chunk.wellFormed /\ st # 0 /\ chunk.sequence # stateObjs[st].receivedChunks)
       => LET R == chunkRoute(World, NewHandler, s, chunk, writeOk)
          IN /\ R.lastResp.error = "sequence"
             /\ R.stateObjs[st].expectedChunks = stateObjs[st].expectedChunks

\* the assembly in flight for (s, payloadType) in the maps `states` / `maps`,
\* 0 if none
inFlightIn(states, maps, s, payloadType) ==
  IF MapHas(states, s) /\ MapHas(maps[MapGet(states, s)], payloadType)
  THEN MapGet(maps[MapGet(states, s)], payloadType)
  ELSE 0

\* the payload of (s, payloadType) was finalized: the file is written
Finalized(s, payloadType) ==
  \E st \in StateIds :
    /\ stateObjs[st].sessionId = s
    /\ stateObjs[st].payloadType = payloadType
    /\ stateObjs[st].finalized >= 1

\* C28: when the payload of (s, t) has been finalized and no assembly of
\* (s, t) is in flight, a later chunk for (s, t) that is rejected for its
\* sequence number leaves the finalized file as it is and leaves no
\* assembly of (s, t) in flight.
C28_FinalizedFileSurvives ==
  \A s \in DOMAIN sessions, chunk \in Chunks(ChunkTypes), writeOk \in BOOLEAN :
    LET t == IF chunk.payloadType = "" THEN "dom" ELSE chunk.payloadType
        filePath == resolveSnapshotFilePath(s, t)
    IN (/\ chunk.wellFormed
        /\ Finalized(s, t)
        /\ InFlightState(s, t) = 0
        /\ chunk.sequence # 0)
       => LET requested == chunkRoute(World, NewHandler, s, chunk, writeOk)
              R == afterMkdir(requested, NewHandler, TRUE, writeOk)
          IN /\ requested.handlers[NewHandler].pc = "mkdir"
             /\ R.lastResp.error = "sequence"
             /\ R.files[filePath] = files[filePath]
             /\ inFlightIn(R.snapshotStates, R.mapObjs, s, t) = 0

\* the process lives and no chunk, finish or shutdown request is being
\* processed
Quiescent ==
  /\ Alive
  /\ \A rid \in DOMAIN handlers : handlers[rid].kind \notin {"chunk", "finish", "shutdown"}

\* C29: when no chunk, finish or shutdown request is being processed, every
\* assembly of the in-flight map of the running service has received fewer
\* chunks than it expects.
C29_InFlightIsIncomplete ==
  Quiescent =>
    \A st \in StateIds :
      InMap(snapshotStates, mapObjs, st)
      => stateObjs[st].receivedChunks < stateObjs[st].expectedChunks

\* ------------------------------------------------- larger declared totals
\* Clients that also declare a total of five chunks.
ManyTotals == {5}

ChunksOfMany ==
  { [sequence |-> q, totalChunks |-> n, payloadType |-> t, payloadFormat |-> b.payloadFormat,
     payload |-> b.payload, wellFormed |-> TRUE] :
      q \in ChunkSequences, n \in ManyTotals, t \in ChunkTypes, b \in ChunkBodies }

NextTotals ==
  \/ Next
  \/ \E s \in SessionIds, chunk \in ChunksOfMany, writeOk \in BOOLEAN :
       ChunkRequest(s, chunk, writeOk)

SpecTotals == Init /\ [][NextTotals]_vars

\* p <= q for fractions <<numerator, denominator>>
FractionLeq(p, q) == p[1] * q[2] <= q[1] * p[2]

\* C30: the event of a chunk an assembly accepts carries a progress in
\* [0, 1], and when the assembly is the only one its session and payload
\* type ever had, that progress is not less than the progress of any
\* earlier event of the capturing phase of the payload type, whatever
\* totalChunks the chunks declare.
C30_ProgressNonDecreasing ==
  [][\A st \in 1..Len(stateObjs') :
       (ChunkAccepted(st) /\ emitted' # emitted)
       => LET state == stateObjs'[st]
              progress == emitted'[Len(emitted')].progress
          IN /\ FractionLeq(<<0, 1>>, progress)
             /\ FractionLeq(progress, <<1, 1>>)
             /\ (\A other \in 1..Len(stateObjs') :
                    other # st => stateObjs'[other].filePath # state.filePath)
                => \A i \in 1..Len(emitted) :
                     (/\ emitted[i].sessionId = state.sessionId
                      /\ emitted[i].phase = CapturingPhase(state.payloadType))
                     => FractionLeq(emitted[i].progress, progress)]_vars

====
